---- MODULE Spec2Model ----
(***************************************************************************)
(* KushRouterSDK (src/src/index.ts): the request execution engine.         *)
(*   - makeRequest: the bounded retry loop around fetch, with the          *)
(*     classification of non-2xx responses into the error classes;         *)
(*   - streamUnified / streamOpenAI / streamAnthropic: the SSE decoding    *)
(*     loop of the async generators (the three loops are the same code).   *)
(* JavaScript values are modelled as follows: an optional value is a set   *)
(* with at most one element ({} is undefined); a number that may be        *)
(* fractional is [whole, half], standing for whole + 0.5 when half.        *)
(***************************************************************************)
EXTENDS Integers, Sequences, FiniteSets, TLC

\* ------------------------------------------------------------------ bounds

\* largest retry ceiling a caller configures
MaxRetries == 3

\* ------------------------------------------------------------ JS numbers

Num(n) == [whole |-> n, half |-> FALSE]

NumHalf(n) == [whole |-> n, half |-> TRUE]

\* a JS number is falsy when it is 0 (NaN is not among the inputs)
Truthy(r) == r.half \/ r.whole # 0

\* attempt <= r, for an integer attempt
AttemptLeq(a, r) == a <= r.whole

\* attempt < r
AttemptLt(a, r) == IF r.half THEN a <= r.whole ELSE a < r.whole

\* attempt === r
AttemptEq(a, r) == ~r.half /\ a = r.whole

RECURSIVE Pow2(_)
Pow2(n) == IF n <= 0 THEN 1 ELSE 2 * Pow2(n - 1)

\* ------------------------------------------------------------ constructor

DefaultTimeout == 30000

DefaultRetries == 3

\* SDKConfig values a caller passes: apiKey, optional timeout, optional retries
\* config.apiKey when the caller leaves it out: undefined, which is no string
UndefinedKey == "<undefined>"

ApiKeys == {"", "sk-test", UndefinedKey}

TimeoutInputs == {{}, {Num(5000)}}

RetriesInputs ==
    {{}} \cup {{Num(n)} : n \in -1..MaxRetries}
         \cup {{NumHalf(n)} : n \in 0..(MaxRetries - 1)}

Configs == [apiKey : ApiKeys, timeout : TimeoutInputs, retries : RetriesInputs]

\* config.timeout || 30000
CtorTimeout(config) ==
    IF config.timeout # {} /\ Truthy(CHOOSE t \in config.timeout : TRUE)
    THEN CHOOSE t \in config.timeout : TRUE
    ELSE Num(DefaultTimeout)

\* config.retries || 3
CtorRetries(config) ==
    IF config.retries # {} /\ Truthy(CHOOSE r \in config.retries : TRUE)
    THEN CHOOSE r \in config.retries : TRUE
    ELSE Num(DefaultRetries)

\* if (!this.apiKey) throw new Error('API key is required')
\* mutant of CtorThrows: only a missing key is refused
CtorThrowsOnlyMissing(config) == config.apiKey = UndefinedKey

CtorThrows(config) == config.apiKey \in {"", UndefinedKey}

BaseURL == "https://api.kushrouter.com"

\* ------------------------------------------------------------ responses

\* HTTP statuses the server answers with
Statuses == {200, 204, 401, 402, 404, 429, 500}

\* mutant of Ok: only 200 counts as success
OkOnly200(status) == status = 200

\* response.ok
Ok(status) == status >= 200 /\ status <= 299

\* Response bodies of a non-2xx answer:
\*   "text"    not JSON                          "empty"   a zero-length body
\*   "null"    the JSON text null                "number"  the JSON text 5
\*   "object"  {}  (no error field)
\*   "error"   {"error":{"message":"boom","type":"server_error","details":"d"}}
\*   "blank"   {"error":{"message":""}}
Bodies == {"text", "empty", "null", "number", "object", "error", "blank"}

\* response.json(): rejects when the body is not JSON, else resolves with the value
ResponseJson(body) ==
    CASE body \in {"text", "empty"} -> [ok |-> FALSE, t |-> "none", error |-> {}]
      [] body = "null"   -> [ok |-> TRUE, t |-> "null", error |-> {}]
      [] body = "number" -> [ok |-> TRUE, t |-> "number", error |-> {}]
      [] body = "object" -> [ok |-> TRUE, t |-> "object", error |-> {}]
      [] body = "error"  -> [ok |-> TRUE, t |-> "object",
                             error |-> {[message |-> {"boom"}, type |-> {"server_error"},
                                         details |-> {"d"}]}]
      [] body = "blank"  -> [ok |-> TRUE, t |-> "object",
                             error |-> {[message |-> {""}, type |-> {}, details |-> {}]}]

\* mutant of ErrorData: a body that does not parse is replaced by null
ErrorDataNullOnFailure(body) ==
    IF ResponseJson(body).ok THEN ResponseJson(body)
    ELSE [ok |-> TRUE, t |-> "null", error |-> {}]

\* await response.json().catch(() => ({}))
ErrorData(body) ==
    IF ResponseJson(body).ok THEN ResponseJson(body)
    ELSE [ok |-> TRUE, t |-> "object", error |-> {}]

\* evaluating errorData.error throws a TypeError when errorData is null
ErrorFieldThrows(errorData) == errorData.t = "null"

\* errorData.error?.message, errorData.error?.type, errorData.error?.details
ErrMessage(errorData) == UNION {e.message : e \in errorData.error}

ErrType(errorData) == UNION {e.type : e \in errorData.error}

ErrDetails(errorData) == UNION {e.details : e \in errorData.error}

\* `HTTP ${response.status}`
HttpMessage(status) ==
    CASE status = 200 -> "HTTP 200" [] status = 204 -> "HTTP 204"
      [] status = 401 -> "HTTP 401" [] status = 402 -> "HTTP 402"
      [] status = 404 -> "HTTP 404" [] status = 429 -> "HTTP 429"
      [] status = 500 -> "HTTP 500"

\* ------------------------------------------------------------ error classes

\* a default parameter (message = '...') applies when the argument is undefined
OrDefault(opt, dflt) == IF opt = {} THEN dflt ELSE CHOOSE m \in opt : TRUE

\* a || b on an optional string: b when a is undefined or ''
OrElse(opt, dflt) == IF opt = {} \/ opt = {""} THEN dflt ELSE CHOOSE m \in opt : TRUE

KushRouterError(message, status, code, details) ==
    [name |-> "KushRouterError", message |-> message, status |-> status,
     code |-> code, details |-> details]

AuthenticationError(message) ==
    [KushRouterError(OrDefault(message, "Invalid API key"), {401},
                     {"authentication_error"}, {})
        EXCEPT !.name = "AuthenticationError"]

InsufficientCreditsError(message, details) ==
    [KushRouterError(OrDefault(message, "Insufficient credits"), {402},
                     {"insufficient_credits"}, details)
        EXCEPT !.name = "InsufficientCreditsError"]

RateLimitError(message) ==
    [KushRouterError(OrDefault(message, "Rate limit exceeded"), {429},
                     {"rate_limit_exceeded"}, {})
        EXCEPT !.name = "RateLimitError"]

\* errors that are no KushRouterError: thrown by the runtime, not by the SDK
TypeErrorNull ==
    [name |-> "TypeError", message |-> "Cannot read properties of null",
     status |-> {}, code |-> {}, details |-> {}]

FetchFailed ==
    [name |-> "TypeError", message |-> "fetch failed",
     status |-> {}, code |-> {}, details |-> {}]

AbortError ==
    [name |-> "AbortError", message |-> "This operation was aborted",
     status |-> {}, code |-> {}, details |-> {}]

\* new Error('API key is required')
ApiKeyRequired ==
    [name |-> "Error", message |-> "API key is required",
     status |-> {}, code |-> {}, details |-> {}]

\* the classes of the hierarchy: error instanceof KushRouterError
IsKushRouterError(e) ==
    e.name \in {"KushRouterError", "AuthenticationError",
                "InsufficientCreditsError", "RateLimitError"}

\* ------------------------------------------------------------ makeRequest

\* the error object created while attempt `a` runs (att tells the objects of
\* different attempts apart; it is not a field of the JS object)
Thrown(e, a) == [name |-> e.name, message |-> e.message, status |-> e.status,
                 code |-> e.code, details |-> e.details, att |-> a]

\* the switch on response.status: the error constructed for a non-2xx response
\* (for 429, by the branch taken on the last attempt)
SwitchError(status, errorData) ==
    IF ErrorFieldThrows(errorData) THEN TypeErrorNull
    ELSE CASE status = 401 -> AuthenticationError(ErrMessage(errorData))
           [] status = 402 -> InsufficientCreditsError(ErrMessage(errorData),
                                                       ErrDetails(errorData))
           [] status = 429 -> RateLimitError(ErrMessage(errorData))
           [] OTHER -> KushRouterError(
                           OrElse(ErrMessage(errorData), HttpMessage(status)),
                           {status}, ErrType(errorData), {})

\* mutant of RateLimitBackoff: attempt <= this.retries
RateLimitBackoffLeq(status, a, r) == status = 429 /\ AttemptLeq(a, r)

\* case 429: if (attempt < this.retries) { await sleep(2^attempt * 1000); continue; }
RateLimitBackoff(status, a, r) == status = 429 /\ AttemptLt(a, r)

\* mutant of TryBlock: the 429 branch sleeps 1000 * attempt like the catch block
TryBlockLinear(status, body, a, r) ==
    IF Ok(status) THEN [kind |-> "return", ms |-> 0, error |-> {}]
    ELSE IF RateLimitBackoff(status, a, r)
    THEN [kind |-> "continue", ms |-> 1000 * a, error |-> {}]
    ELSE [kind |-> "throw", ms |-> 0,
          error |-> {Thrown(SwitchError(status, ErrorData(body)), a)}]

\* the try block once fetch has resolved: return, sleep-and-continue, or throw
TryBlock(status, body, a, r) ==
    IF Ok(status) THEN [kind |-> "return", ms |-> 0, error |-> {}]
    ELSE IF RateLimitBackoff(status, a, r)
    THEN [kind |-> "continue", ms |-> Pow2(a) * 1000, error |-> {}]
    ELSE [kind |-> "throw", ms |-> 0,
          error |-> {Thrown(SwitchError(status, ErrorData(body)), a)}]

\* error instanceof AuthenticationError || error instanceof InsufficientCreditsError
NoRetry(e) == e.name \in {"AuthenticationError", "InsufficientCreditsError"}

\* mutant of CatchBlock: the catch block backs off exponentially as well
CatchBlockExp(e, a, r) ==
    IF NoRetry(e) \/ AttemptEq(a, r)
    THEN [kind |-> "throw", ms |-> 0]
    ELSE [kind |-> "sleep", ms |-> Pow2(a) * 1000]

\* mutant of CatchBlock: no test for the last attempt
CatchBlockNoCeiling(e, a, r) ==
    IF NoRetry(e)
    THEN [kind |-> "throw", ms |-> 0]
    ELSE [kind |-> "sleep", ms |-> 1000 * a]

\* the catch block: rethrow, or sleep(1000 * attempt) and go round again
CatchBlock(e, a, r) ==
    IF NoRetry(e) \/ AttemptEq(a, r)
    THEN [kind |-> "throw", ms |-> 0]
    ELSE [kind |-> "sleep", ms |-> 1000 * a]

VARIABLES
    tasks,       \* the frames of the calls and streams waiting on the instance
    running      \* the task whose continuation is running

varsT == <<tasks, running>>

VARIABLES
    conv,        \* the convenience operation invoked and its options
    cpc,         \* where that operation, or the generator it returned, stands
    ret,         \* what the operation returned or threw
    unified,     \* what the unified operation delivers: the response of
                 \* chatUnified, or the frames of streamUnified in order
    taken,       \* how many of them streamText has received
    texts        \* the strings streamText has yielded, in order

varsC == <<conv, cpc, ret, unified, taken, texts>>

VARIABLES
    call,        \* the public operation invoked and its argument
    sent         \* the requests handed to fetch, in order: headers and body

varsB == <<call, sent>>

VARIABLES
    gen,         \* state of the async generator object
    hasBody,     \* response.body is not null
    input,       \* all bytes of the response body
    source,      \* the bytes the body has yet to deliver
    reader,      \* the body reader: "none", "locked" or "released"
    pend,        \* the TextDecoder's kept bytes of an unfinished character
    buffer,      \* let buffer
    lines,       \* the lines the for loop has yet to visit
    yielded,     \* the frames handed to the consumer, in order
    exit         \* how the generator finished

varsS == <<gen, hasBody, input, source, reader, pend, buffer, lines, yielded, exit>>


VARIABLES
    config,      \* the SDKConfig the constructor was given
    baseURL,     \* private baseURL
    apiKey, timeout, retries,   \* the instance's private fields
    pc,          \* where the makeRequest call stands
    attempt,     \* the loop counter
    lastError,   \* let lastError: Error  ({} while unassigned)
    timers,      \* attempts whose setTimeout is still pending
    response,    \* the response fetch resolved with, if any
    result,      \* what the call returned or raised
    exchanges,   \* number of fetch calls issued
    sleeps,      \* the durations passed to sleep, in order
    armed,       \* the durations passed to setTimeout, in order
    log          \* per finished attempt: the status received and the error thrown

varsR == <<config, baseURL, apiKey, timeout, retries, pc, attempt, lastError, timers,
           response, result, exchanges, sleeps, armed, log>>

vars == <<varsR, varsS, varsB, varsC, varsT>>

NoResult == [kind |-> "none", response |-> {}, error |-> {}]

\* new KushRouterSDK(config), for every config a caller may pass
InitR ==
    /\ config \in Configs
    /\ baseURL = BaseURL
    /\ apiKey = config.apiKey
    /\ timeout = CtorTimeout(config)
    /\ retries = CtorRetries(config)
    /\ pc = IF CtorThrows(config) THEN "noinstance" ELSE "idle"
    /\ attempt = 0
    /\ lastError = {}
    /\ timers = {}
    /\ response = {}
    /\ result = IF CtorThrows(config)
                THEN [kind |-> "error", response |-> {},
                      error |-> {Thrown(ApiKeyRequired, 0)}]
                ELSE NoResult
    /\ exchanges = 0
    /\ sleeps = <<>>
    /\ armed = <<>>
    /\ log = <<>>

\* makeRequest is called: let lastError; attempt = 1
Call ==
    /\ UNCHANGED <<varsS, varsB, varsC, varsT>>
    /\ pc = "idle"
    /\ pc' = "loop"
    /\ attempt' = 1
    /\ UNCHANGED <<baseURL, config, armed, apiKey, timeout, retries, lastError, timers, response, result,
                   exchanges, sleeps, log>>

\* attempt <= this.retries: arm the deadline and issue fetch
StartAttempt ==
    /\ UNCHANGED <<varsS, varsB, varsC, varsT>>
    /\ pc = "loop"
    /\ AttemptLeq(attempt, retries)
    /\ timers' = timers \cup {attempt}
    /\ armed' = Append(armed, timeout)
    /\ exchanges' = exchanges + 1
    /\ pc' = "fetch"
    /\ UNCHANGED <<baseURL, config, apiKey, timeout, retries, attempt, lastError, response, result,
                   sleeps, log>>

\* a loop without the throw after it: with the attempts used up, control
\* comes back to the loop test
LoopExitSpins ==
    /\ UNCHANGED <<varsS, varsB, varsC, varsT>>
    /\ pc = "loop"
    /\ ~AttemptLeq(attempt, retries)
    /\ UNCHANGED varsR

\* the loop condition fails: throw lastError!
LoopExit ==
    /\ UNCHANGED <<varsS, varsB, varsC, varsT>>
    /\ pc = "loop"
    /\ ~AttemptLeq(attempt, retries)
    /\ pc' = "raised"
    /\ result' = [kind |-> "error", response |-> {}, error |-> lastError]
    /\ UNCHANGED <<baseURL, config, armed, apiKey, timeout, retries, attempt, lastError, timers, response,
                   exchanges, sleeps, log>>

\* an error e reaches the catch block during the current attempt
Catch(e, status) ==
    /\ lastError' = {e}
    /\ log' = Append(log, [status |-> status, error |-> {e}])
    /\ IF CatchBlock(e, attempt, retries).kind = "throw"
       THEN /\ pc' = "raised"
            /\ result' = [kind |-> "error", response |-> {}, error |-> {e}]
            /\ sleeps' = sleeps
       ELSE /\ pc' = "sleep"
            /\ result' = result
            /\ sleeps' = Append(sleeps, CatchBlock(e, attempt, retries).ms)

\* a deadline that stays armed after the response: no clearTimeout before the
\* status is looked at
FetchRespondsKeepsTimer(status, body) ==
    /\ UNCHANGED <<varsS, varsB, varsC, varsT>>
    /\ pc = "fetch"
    /\ timers' = timers
    /\ response' = {[status |-> status, body |-> body]}
    /\ LET t == TryBlock(status, body, attempt, retries) IN
         CASE t.kind = "return" ->
                /\ pc' = "returned"
                /\ result' = [kind |-> "response", response |-> response', error |-> {}]
                /\ log' = Append(log, [status |-> {status}, error |-> {}])
                /\ UNCHANGED <<lastError, sleeps>>
           [] t.kind = "continue" ->
                /\ pc' = "sleep"
                /\ sleeps' = Append(sleeps, t.ms)
                /\ log' = Append(log, [status |-> {status}, error |-> {}])
                /\ UNCHANGED <<lastError, result>>
           [] t.kind = "throw" ->
                Catch(CHOOSE e \in t.error : TRUE, {status})
    /\ UNCHANGED <<baseURL, config, armed, apiKey, timeout, retries, attempt, exchanges>>

\* fetch resolves with a response: clearTimeout, then the rest of the try block
FetchResponds(status, body) ==
    /\ UNCHANGED <<varsS, varsB, varsC, varsT>>
    /\ pc = "fetch"
    /\ timers' = timers \ {attempt}
    /\ response' = {[status |-> status, body |-> body]}
    /\ LET t == TryBlock(status, body, attempt, retries) IN
         CASE t.kind = "return" ->
                /\ pc' = "returned"
                /\ result' = [kind |-> "response", response |-> response', error |-> {}]
                /\ log' = Append(log, [status |-> {status}, error |-> {}])
                /\ UNCHANGED <<lastError, sleeps>>
           [] t.kind = "continue" ->
                /\ pc' = "sleep"
                /\ sleeps' = Append(sleeps, t.ms)
                /\ log' = Append(log, [status |-> {status}, error |-> {}])
                /\ UNCHANGED <<lastError, result>>
           [] t.kind = "throw" ->
                Catch(CHOOSE e \in t.error : TRUE, {status})
    /\ UNCHANGED <<baseURL, config, armed, apiKey, timeout, retries, attempt, exchanges>>

\* fetch rejects (connection failure): the timer is not cleared on this path
FetchRejects ==
    /\ UNCHANGED <<varsS, varsB, varsC, varsT>>
    /\ pc = "fetch"
    /\ Catch(Thrown(FetchFailed, attempt), {})
    /\ UNCHANGED <<baseURL, config, armed, apiKey, timeout, retries, attempt, timers, response, exchanges>>

\* mutant of TimerFires: one controller for the whole call, so that the timer
\* of an earlier attempt aborts the fetch in flight
TimerFiresShared(k) ==
    /\ UNCHANGED <<varsS, varsB, varsC, varsT>>
    /\ k \in timers
    /\ timers' = timers \ {k}
    /\ IF pc = "fetch"
       THEN Catch(Thrown(AbortError, attempt), {})
       ELSE UNCHANGED <<pc, lastError, result, sleeps, log>>
    /\ UNCHANGED <<baseURL, config, armed, apiKey, timeout, retries, attempt, response, exchanges>>

\* a pending timer fires: controller.abort(); the attempt's fetch, if still
\* in flight, rejects with an AbortError
TimerFires(k) ==
    /\ UNCHANGED <<varsS, varsB, varsC, varsT>>
    /\ k \in timers
    /\ timers' = timers \ {k}
    /\ IF pc = "fetch" /\ attempt = k
       THEN Catch(Thrown(AbortError, attempt), {})
       ELSE UNCHANGED <<pc, lastError, result, sleeps, log>>
    /\ UNCHANGED <<baseURL, config, armed, apiKey, timeout, retries, attempt, response, exchanges>>

\* a loop that counts this.retries down instead of counting attempt up
SleepElapsesCountsDown ==
    /\ UNCHANGED <<varsS, varsB, varsC, varsT>>
    /\ pc = "sleep"
    /\ retries' = [retries EXCEPT !.whole = retries.whole - 1]
    /\ pc' = "loop"
    /\ UNCHANGED <<baseURL, config, armed, apiKey, timeout, attempt, lastError, timers, response,
                   result, exchanges, sleeps, log>>

\* the sleep promise resolves: attempt++ and back to the loop condition
SleepElapses ==
    /\ UNCHANGED <<varsS, varsB, varsC, varsT>>
    /\ pc = "sleep"
    /\ attempt' = attempt + 1
    /\ pc' = "loop"
    /\ UNCHANGED <<baseURL, config, armed, apiKey, timeout, retries, lastError, timers, response, result,
                   exchanges, sleeps, log>>

NextR ==
    \/ Call
    \/ StartAttempt
    \/ LoopExit
    \/ \E status \in Statuses, body \in Bodies : FetchResponds(status, body)
    \/ FetchRejects
    \/ \E k \in timers : TimerFires(k)
    \/ SleepElapses

\* ------------------------------------------------------------ text

\* Bytes and characters are one-character strings; the two bytes "C3" "A9"
\* are the UTF-8 encoding of the character "U+E9", and "U+FFFD" is the
\* replacement character.
RECURSIVE Concat(_)
Concat(ss) == IF ss = <<>> THEN <<>> ELSE Head(ss) \o Concat(Tail(ss))

IsLead(b) == b = "C3"

IsCont(b) == b = "A9"

\* the character TextDecoder emits for byte i of `full`: a lead byte emits
\* nothing by itself (its character comes with the continuation byte, or it is
\* kept when it ends the chunk) unless the byte after it is no continuation
Emitted(full, i) ==
    IF IsLead(full[i])
    THEN IF i = Len(full) \/ IsCont(full[i + 1]) THEN "" ELSE "U+FFFD"
    ELSE IF IsCont(full[i])
    THEN IF i > 1 /\ IsLead(full[i - 1]) THEN "U+E9" ELSE "U+FFFD"
    ELSE full[i]

\* mutant of Decode: decoder.decode(value), each chunk decoded on its own; an
\* unfinished character at the end of the chunk becomes U+FFFD
DecodeNoStream(kept, bytes) ==
    LET flushed == IF bytes # <<>> /\ IsLead(bytes[Len(bytes)])
                   THEN bytes \o <<"?">> ELSE bytes
        out == SelectSeq([i \in 1..Len(flushed) |-> Emitted(flushed, i)],
                         LAMBDA c : c # "") IN
    [text |-> IF flushed = bytes THEN out ELSE SubSeq(out, 1, Len(out) - 1),
     pend |-> <<>>]

\* decoder.decode(value, { stream: true }) with the decoder holding `kept`:
\* the text of the kept bytes followed by the chunk, and the bytes kept next
Decode(kept, bytes) ==
    LET full == kept \o bytes IN
    [text |-> SelectSeq([i \in 1..Len(full) |-> Emitted(full, i)], LAMBDA c : c # ""),
     pend |-> IF full # <<>> /\ IsLead(full[Len(full)])
              THEN <<full[Len(full)]>> ELSE <<>>]

\* text.split('\n'): the pieces between newlines, always at least one
Split(text) ==
    LET nl == SelectSeq([i \in 1..Len(text) |-> i], LAMBDA i : text[i] = "\n") IN
    [j \in 1..(Len(nl) + 1) |->
        SubSeq(text,
               IF j = 1 THEN 1 ELSE nl[j - 1] + 1,
               IF j = Len(nl) + 1 THEN Len(text) ELSE nl[j] - 1)]

\* lines.pop() || '' : the last piece; the pieces before it are the complete lines
Last(ls) == ls[Len(ls)]

Front(ls) == SubSeq(ls, 1, Len(ls) - 1)

DataPrefix == <<"d", "a", "t", "a", ":", " ">>

\* mutant of StartsWithData: every line long enough to have a payload counts
StartsWithDataAnyLine(line) == Len(line) >= Len(DataPrefix)

\* line.startsWith('data: ')
StartsWithData(line) ==
    Len(line) >= Len(DataPrefix) /\ SubSeq(line, 1, Len(DataPrefix)) = DataPrefix

\* line.slice(6)
Slice6(line) == SubSeq(line, Len(DataPrefix) + 1, Len(line))

WhiteSpace == {" ", "\t", "\r", "\n"}

RECURSIVE TrimStart(_)
TrimStart(t) ==
    IF t # <<>> /\ Head(t) \in WhiteSpace THEN TrimStart(Tail(t)) ELSE t

RECURSIVE TrimEnd(_)
TrimEnd(t) ==
    IF t # <<>> /\ t[Len(t)] \in WhiteSpace THEN TrimEnd(SubSeq(t, 1, Len(t) - 1)) ELSE t

\* String.prototype.trim
Trim(t) == TrimEnd(TrimStart(t))

DoneSentinel == <<"[", "D", "O", "N", "E", "]">>

\* ------------------------------------------------------------ JSON.parse

\* A parsed value is a tagged tuple: <<"num", n>>, <<"str", chars>>,
\* <<"lit", name>>, <<"arr", elements>>, <<"obj", <<key, value>> pairs>>.
\* A parse result is [ok, val, next]: next is the index after the value.
Digits == {"0", "1", "2", "3", "4", "5", "6", "7", "8", "9"}

DigitVal(c) ==
    CASE c = "0" -> 0 [] c = "1" -> 1 [] c = "2" -> 2 [] c = "3" -> 3 [] c = "4" -> 4
      [] c = "5" -> 5 [] c = "6" -> 6 [] c = "7" -> 7 [] c = "8" -> 8 [] c = "9" -> 9

ParseFail == [ok |-> FALSE, val |-> <<>>, next |-> 0]

RECURSIVE SkipWs(_, _)
SkipWs(s, i) == IF i <= Len(s) /\ s[i] \in WhiteSpace THEN SkipWs(s, i + 1) ELSE i

\* a literal word (null, true, false) at index i
ParseWord(s, i, word) ==
    IF i + Len(word) - 1 <= Len(s) /\ SubSeq(s, i, i + Len(word) - 1) = word
    THEN [ok |-> TRUE, val |-> <<"lit", word>>, next |-> i + Len(word)]
    ELSE ParseFail

\* digits from index i on, with the value accumulated so far
RECURSIVE ParseDigits(_, _, _)
ParseDigits(s, i, n) ==
    IF i <= Len(s) /\ s[i] \in Digits
    THEN ParseDigits(s, i + 1, 10 * n + DigitVal(s[i]))
    ELSE [ok |-> TRUE, val |-> <<"num", n>>, next |-> i]

\* an integer without sign, fraction or exponent; no leading zero
ParseNumber(s, i) ==
    IF s[i] = "0" /\ i < Len(s) /\ s[i + 1] \in Digits THEN ParseFail
    ELSE ParseDigits(s, i, 0)

\* the characters of a string, from the index after the opening quote
RECURSIVE ParseChars(_, _, _)
ParseChars(s, i, acc) ==
    IF i > Len(s) \/ s[i] \in {"\n", "\r", "\t", "\\"} THEN ParseFail
    ELSE IF s[i] = "\"" THEN [ok |-> TRUE, val |-> <<"str", acc>>, next |-> i + 1]
    ELSE ParseChars(s, i + 1, Append(acc, s[i]))

RECURSIVE ParseValue(_, _)
RECURSIVE ParseMembers(_, _, _)
RECURSIVE ParseElements(_, _, _)

\* "key": value pairs after '{' or ',', up to the closing '}'
ParseMembers(s, i, acc) ==
    LET k == SkipWs(s, i) IN
    IF k > Len(s) \/ s[k] # "\"" THEN ParseFail
    ELSE LET key == ParseChars(s, k + 1, <<>>) IN
         IF ~key.ok THEN ParseFail
         ELSE LET c == SkipWs(s, key.next) IN
              IF c > Len(s) \/ s[c] # ":" THEN ParseFail
              ELSE LET v == ParseValue(s, c + 1) IN
                   IF ~v.ok THEN ParseFail
                   ELSE LET e == SkipWs(s, v.next)
                            got == Append(acc, <<key.val[2], v.val>>) IN
                        IF e > Len(s) THEN ParseFail
                        ELSE IF s[e] = "}"
                        THEN [ok |-> TRUE, val |-> <<"obj", got>>, next |-> e + 1]
                        ELSE IF s[e] = "," THEN ParseMembers(s, e + 1, got)
                        ELSE ParseFail

\* values after '[' or ',', up to the closing ']'
ParseElements(s, i, acc) ==
    LET v == ParseValue(s, i) IN
    IF ~v.ok THEN ParseFail
    ELSE LET e == SkipWs(s, v.next)
             got == Append(acc, v.val) IN
         IF e > Len(s) THEN ParseFail
         ELSE IF s[e] = "]"
         THEN [ok |-> TRUE, val |-> <<"arr", got>>, next |-> e + 1]
         ELSE IF s[e] = "," THEN ParseElements(s, e + 1, got)
         ELSE ParseFail

ParseValue(s, i) ==
    LET k == SkipWs(s, i) IN
    IF k > Len(s) THEN ParseFail
    ELSE IF s[k] = "{"
    THEN LET c == SkipWs(s, k + 1) IN
         IF c <= Len(s) /\ s[c] = "}"
         THEN [ok |-> TRUE, val |-> <<"obj", <<>>>>, next |-> c + 1]
         ELSE ParseMembers(s, k + 1, <<>>)
    ELSE IF s[k] = "["
    THEN LET c == SkipWs(s, k + 1) IN
         IF c <= Len(s) /\ s[c] = "]"
         THEN [ok |-> TRUE, val |-> <<"arr", <<>>>>, next |-> c + 1]
         ELSE ParseElements(s, k + 1, <<>>)
    ELSE IF s[k] = "\"" THEN ParseChars(s, k + 1, <<>>)
    ELSE IF s[k] \in Digits THEN ParseNumber(s, k)
    ELSE IF s[k] = "n" THEN ParseWord(s, k, <<"n", "u", "l", "l">>)
    ELSE IF s[k] = "t" THEN ParseWord(s, k, <<"t", "r", "u", "e">>)
    ELSE IF s[k] = "f" THEN ParseWord(s, k, <<"f", "a", "l", "s", "e">>)
    ELSE ParseFail

\* JSON.parse(data): one value, with nothing but white space around it
JsonParse(data) ==
    LET v == ParseValue(data, 1) IN
    IF v.ok /\ SkipWs(data, v.next) > Len(data) THEN v ELSE ParseFail

\* ------------------------------------------------------------ SSE input

\* number of SSE units a response body is made of
MaxUnits == 2

\* The units a server sends, as bytes.  The first three are the frames of the
\* documented example: data: {"a":1}\n\n  data: {"a":2}\n\n  data: [DONE]\n\n
UnitA1 == DataPrefix \o <<"{", "\"", "a", "\"", ":", "1", "}", "\n", "\n">>

UnitA2 == DataPrefix \o <<"{", "\"", "a", "\"", ":", "2", "}", "\n", "\n">>

UnitDone == DataPrefix \o DoneSentinel \o <<"\n", "\n">>

\* data: not-json\n\n
UnitNotJson == DataPrefix \o <<"n", "o", "t", "-", "j", "s", "o", "n", "\n", "\n">>

\* data: "é"\r\n   (a two-byte character, CRLF line end)
UnitAccent == DataPrefix \o <<"\"", "C3", "A9", "\"", "\r", "\n">>

\* : ping\n   (an SSE comment)
UnitPing == <<":", " ", "p", "i", "n", "g", "\n">>

\* data: 7   (a line the server has not terminated)
UnitOpen == DataPrefix \o <<"7">>

\* event: 5\n   (an SSE field other than data)
UnitEvent == <<"e", "v", "e", "n", "t", ":", " ", "5", "\n">>

Units ==
    {UnitA1, UnitA2, UnitDone, UnitNotJson, UnitAccent, UnitPing, UnitOpen, UnitEvent}

\* the documented example: two frames, then the sentinel
Example == UnitA1 \o UnitA2 \o UnitDone

\* a frame, the sentinel, and a frame the server sends after it
AfterDone == UnitA1 \o UnitDone \o UnitA2

\* the bodies of at most MaxUnits units, and the two bodies above
Streams ==
    {Concat(us) : us \in UNION {[1..n -> Units] : n \in 0..MaxUnits}}
        \cup {Example, AfterDone}

\* ------------------------------------------------------------ stream generators

\* mutant of LineAction: no test for the [DONE] sentinel
LineActionNoDone(line) ==
    IF ~StartsWithData(line) THEN [kind |-> "skip", frame |-> <<>>]
    ELSE LET data == Trim(Slice6(line)) IN
         IF JsonParse(data).ok
         THEN [kind |-> "yield", frame |-> JsonParse(data).val]
         ELSE [kind |-> "skip", frame |-> <<>>]

\* mutant of LineAction: a payload that does not parse ends the sequence
LineActionBadEnds(line) ==
    IF ~StartsWithData(line) THEN [kind |-> "skip", frame |-> <<>>]
    ELSE LET data == Trim(Slice6(line)) IN
         IF data = DoneSentinel THEN [kind |-> "return", frame |-> <<>>]
         ELSE IF JsonParse(data).ok
         THEN [kind |-> "yield", frame |-> JsonParse(data).val]
         ELSE [kind |-> "return", frame |-> <<>>]

\* what the for loop does with one complete line
LineAction(line) ==
    IF ~StartsWithData(line) THEN [kind |-> "skip", frame |-> <<>>]
    ELSE LET data == Trim(Slice6(line)) IN
         IF data = DoneSentinel THEN [kind |-> "return", frame |-> <<>>]
         ELSE IF JsonParse(data).ok
         THEN [kind |-> "yield", frame |-> JsonParse(data).val]
         ELSE [kind |-> "skip", frame |-> <<>>]


\* a generator object exists for a body `body`, and nothing of it has run
InitS ==
    /\ gen = "suspendedStart"
    /\ hasBody \in BOOLEAN
    /\ input \in Streams
    /\ source = input
    /\ reader = "none"
    /\ pend = <<>>
    /\ buffer = <<>>
    /\ lines = <<>>
    /\ yielded = <<>>
    /\ exit = "none"

\* mutant of Finally: no try/finally, the lock is released on the normal
\* paths only
FinallyNotOnError(how) ==
    /\ reader' = IF how \in {"error", "return"} THEN reader ELSE "released"
    /\ exit' = how
    /\ gen' = IF how = "error" THEN "threw" ELSE "completed"

\* mutant of Finally: end of input is raised to the consumer as an error
FinallyEofThrows(how) ==
    /\ reader' = "released"
    /\ exit' = how
    /\ gen' = IF how \in {"error", "eof"} THEN "threw" ELSE "completed"

\* mutant of Finally: after the consumer's return() the loop goes on reading
FinallyKeepsReading(how) ==
    /\ reader' = "released"
    /\ exit' = how
    /\ gen' = IF how = "error" THEN "threw"
              ELSE IF how = "return" THEN "reading" ELSE "completed"

\* the finally block: reader.releaseLock()
Finally(how) ==
    /\ reader' = "released"
    /\ exit' = how
    /\ gen' = IF how = "error" THEN "threw" ELSE "completed"

\* first next(): the response is there; check the body, take the reader and
\* issue the first read
Start ==
    /\ UNCHANGED <<varsR, varsB, varsC, varsT>>
    /\ gen = "suspendedStart"
    /\ IF hasBody
       THEN /\ gen' = "reading"
            /\ reader' = "locked"
            /\ exit' = exit
       ELSE /\ gen' = "threw"
            /\ exit' = "nobody"
            /\ UNCHANGED reader
    /\ UNCHANGED <<hasBody, input, source, pend, buffer, lines, yielded>>

\* return() on a generator that never ran: it completes without running
ReturnUnstarted ==
    /\ UNCHANGED <<varsR, varsB, varsC, varsT>>
    /\ gen = "suspendedStart"
    /\ gen' = "completed"
    /\ exit' = "return"
    /\ UNCHANGED <<hasBody, input, source, reader, pend, buffer, lines, yielded>>

\* reader.read() resolves with the next n bytes: decode, append, split, pop
ReadChunk(n) ==
    /\ UNCHANGED <<varsR, varsB, varsC, varsT>>
    /\ gen = "reading"
    /\ n \in 1..Len(source)
    /\ LET d == Decode(pend, SubSeq(source, 1, n))
           pieces == Split(buffer \o d.text) IN
         /\ pend' = d.pend
         /\ lines' = Front(pieces)
         /\ buffer' = Last(pieces)
    /\ source' = SubSeq(source, n + 1, Len(source))
    /\ gen' = "lines"
    /\ UNCHANGED <<hasBody, input, reader, yielded, exit>>

\* an end of input that first takes what is left in the buffer as a last line
ReadDoneFlushes ==
    /\ UNCHANGED <<varsR, varsB, varsC, varsT>>
    /\ gen = "reading"
    /\ source = <<>>
    /\ Finally("eof")
    /\ yielded' = IF LineAction(buffer).kind = "yield"
                  THEN Append(yielded, LineAction(buffer).frame)
                  ELSE yielded
    /\ UNCHANGED <<hasBody, input, source, pend, buffer, lines>>

\* reader.read() resolves with done: break, then finally
ReadDone ==
    /\ UNCHANGED <<varsR, varsB, varsC, varsT>>
    /\ gen = "reading"
    /\ source = <<>>
    /\ Finally("eof")
    /\ UNCHANGED <<hasBody, input, source, pend, buffer, lines, yielded>>

\* a failed read that is answered by a new exchange and a new pass over the
\* body
ReadErrorRetries ==
    /\ UNCHANGED <<varsB, varsC, varsT>>
    /\ gen = "reading"
    /\ exchanges < MaxRetries
    /\ exchanges' = exchanges + 1
    /\ source' = input
    /\ pend' = <<>>
    /\ buffer' = <<>>
    /\ UNCHANGED <<gen, hasBody, input, reader, lines, yielded, exit>>
    /\ UNCHANGED <<baseURL, config, armed, apiKey, timeout, retries, pc, attempt, lastError,
                   timers, response, result, sleeps, log>>

\* reader.read() rejects (the connection breaks): finally, and the error goes
\* to the consumer
ReadError ==
    /\ UNCHANGED <<varsR, varsB, varsC, varsT>>
    /\ gen = "reading"
    /\ Finally("error")
    /\ UNCHANGED <<hasBody, input, source, pend, buffer, lines, yielded>>

\* the for loop visits the next line
ProcessLine ==
    /\ UNCHANGED <<varsR, varsB, varsC, varsT>>
    /\ gen = "lines"
    /\ lines # <<>>
    /\ LET act == LineAction(Head(lines)) IN
         CASE act.kind = "skip" ->
                /\ lines' = Tail(lines)
                /\ UNCHANGED <<gen, reader, yielded, exit>>
           [] act.kind = "yield" ->
                /\ lines' = Tail(lines)
                /\ yielded' = Append(yielded, act.frame)
                /\ gen' = "suspendedYield"
                /\ UNCHANGED <<reader, exit>>
           [] act.kind = "return" ->
                /\ Finally("done")
                /\ UNCHANGED <<lines, yielded>>
    /\ UNCHANGED <<hasBody, input, source, pend, buffer>>

\* mutant of ReadAgain: the next read is issued while lines are still waiting
ReadAgainEarly ==
    /\ UNCHANGED <<varsR, varsB, varsC, varsT>>
    /\ gen = "lines"
    /\ gen' = "reading"
    /\ UNCHANGED <<hasBody, input, source, reader, pend, buffer, lines, yielded, exit>>

\* the for loop is through: back to while (true), the next reader.read()
ReadAgain ==
    /\ UNCHANGED <<varsR, varsB, varsC, varsT>>
    /\ gen = "lines"
    /\ lines = <<>>
    /\ gen' = "reading"
    /\ UNCHANGED <<hasBody, input, source, reader, pend, buffer, lines, yielded, exit>>

\* next() on a generator suspended at yield: the for loop goes on
Resume ==
    /\ UNCHANGED <<varsR, varsB, varsC, varsT>>
    /\ gen = "suspendedYield"
    /\ gen' = "lines"
    /\ UNCHANGED <<hasBody, input, source, reader, pend, buffer, lines, yielded, exit>>

\* return() on a generator suspended at yield (break out of for await):
\* the finally block runs
Return ==
    /\ UNCHANGED <<varsR, varsB, varsC, varsT>>
    /\ gen = "suspendedYield"
    /\ Finally("return")
    /\ UNCHANGED <<hasBody, input, source, pend, buffer, lines, yielded>>

NextS ==
    \/ Start
    \/ ReturnUnstarted
    \/ \E n \in 1..Len(source) : ReadChunk(n)
    \/ ReadDone
    \/ ReadError
    \/ ProcessLine
    \/ ReadAgain
    \/ Resume
    \/ Return

\* ------------------------------------------------------------ request building

\* A JS object is a function from its possible keys to JS values, "absent" for
\* a key the object does not own; a request is an object or null.
Absent == "absent"

\* the values a caller sets a field to (A and B are two different truthy values)
Values == {"undefined", "null", "0", "false", "''", "A", "B"}

\* the pairs <<alternate form, wire form>> the normalizers know, in code order
UnifiedPairs ==
    << <<"maxTokens", "max_tokens">>, <<"toolChoice", "tool_choice">>,
       <<"timeoutMs", "timeout_ms">>, <<"promptCache", "prompt_cache">>,
       <<"reasoningEffort", "reasoning_effort">>, <<"mcpServers", "mcp_servers">> >>

OpenAIPairs ==
    << <<"maxTokens", "max_tokens">>, <<"toolChoice", "tool_choice">>,
       <<"reasoningEffort", "reasoning_effort">>,
       <<"responseFormat", "response_format">>,
       <<"timeoutMs", "timeout_ms">>, <<"mcpServers", "mcp_servers">> >>

Range(f) == {f[i] : i \in DOMAIN f}

Pairs == Range(UnifiedPairs) \cup Range(OpenAIPairs)

Keys == {p[1] : p \in Pairs} \cup {p[2] : p \in Pairs} \cup {"stream"}

EmptyObject == [k \in Keys |-> Absent]

Object(f) == [t |-> "object", f |-> f]

NullRequest == [t |-> "null", f |-> EmptyObject]

\* the requests a caller passes: one pair of spellings set to any two values
\* (or left out), every alternate spelling at once, and null
Requests ==
    {Object([EmptyObject EXCEPT ![p[1]] = c, ![p[2]] = w]) :
        p \in Pairs, c \in Values \cup {Absent}, w \in Values \cup {Absent}}
      \cup {Object([k \in Keys |-> IF k \in {p[1] : p \in Pairs} THEN "A" ELSE Absent])}
      \cup {Object([EmptyObject EXCEPT !["stream"] = s, !["maxTokens"] = c]) :
                s \in {"true", "false", "undefined"}, c \in {"A", Absent}}
      \cup {NullRequest}

\* out.x !== undefined: the property exists and its value is not undefined
Defined(v) == v \notin {Absent, "undefined"}

\* a ?? b
Nullish(a, b) == IF a \in {Absent, "undefined", "null"} THEN b ELSE a

\* if (out.camel !== undefined) { out.snake = out.snake ?? out.camel; delete out.camel; }
NormalizeField(out, camel, snake) ==
    IF Defined(out[camel])
    THEN [out EXCEPT ![snake] = Nullish(out[snake], out[camel]), ![camel] = Absent]
    ELSE out

RECURSIVE NormalizePairs(_, _)
NormalizePairs(out, pairs) ==
    IF pairs = <<>> THEN out
    ELSE NormalizePairs(NormalizeField(out, pairs[1][1], pairs[1][2]), Tail(pairs))

\* if (!req || typeof req !== 'object') return req; const out = { ...req }; ...
normalizeUnifiedRequest(req) ==
    IF req.t # "object" THEN req
    ELSE Object(NormalizePairs(req.f, UnifiedPairs))

normalizeOpenAIRequest(req) ==
    IF req.t # "object" THEN req
    ELSE Object(NormalizePairs(req.f, OpenAIPairs))

\* the caller's request object once a normalizer that writes to its argument
\* has run on it
RequestAfterNormalizeInPlace(req, pairs) ==
    IF req.t # "object" THEN req
    ELSE Object(NormalizePairs(req.f, pairs))

\* the caller's request object once a normalizer has run on it: the writes
\* and deletes go to `out`, the copy made by const out = { ...req }
RequestAfterNormalize(req, pairs) == req

\* { stream: true, ...request }: the caller's stream value wins
WithStreamCallerWins(req) ==
    Object([req.f EXCEPT !["stream"] =
                IF req.f["stream"] = Absent THEN "true" ELSE req.f["stream"]])

\* { ...request, stream: true }   (spreading null gives no property)
WithStream(req) == Object([req.f EXCEPT !["stream"] = "true"])

\* JSON.stringify, as the object the text denotes: a property whose value is
\* undefined is left out
JSONStringify(req) ==
    IF req.t # "object" THEN req
    ELSE Object([k \in Keys |-> IF req.f[k] = "undefined" THEN Absent ELSE req.f[k]])

\* the body option of a call: a JSON text, a FormData, or none
JsonBody(req) == [kind |-> "json", json |-> JSONStringify(req)]

FormDataBody == [kind |-> "formdata", json |-> NullRequest]

NoBody == [kind |-> "none", json |-> NullRequest]

\* headers objects: a header is a set of at most one value
HeaderNames == {"Content-Type", "x-api-key", "Authorization", "anthropic-version"}

NoHeaders == [h \in HeaderNames |-> {}]

\* { ...a, ...b }
Spread(a, b) == [h \in HeaderNames |-> IF b[h] # {} THEN b[h] ELSE a[h]]

\* mutant of MakeRequestHeaders: the API key goes out in both headers
MakeRequestHeadersBoth(key, optionsHeaders, useBearer) ==
    Spread([NoHeaders EXCEPT !["Content-Type"] = {"application/json"},
                             !["Authorization"] = {"Bearer " \o key},
                             !["x-api-key"] = {key}],
           optionsHeaders)

\* const headers = { 'Content-Type': ..., ...(useBearer ? ... : ...), ...options.headers }
MakeRequestHeaders(key, optionsHeaders, useBearer) ==
    Spread(Spread([NoHeaders EXCEPT !["Content-Type"] = {"application/json"}],
                  IF useBearer
                  THEN [NoHeaders EXCEPT !["Authorization"] = {"Bearer " \o key}]
                  ELSE [NoHeaders EXCEPT !["x-api-key"] = {key}]),
           optionsHeaders)

AnthropicVersion == [NoHeaders EXCEPT !["anthropic-version"] = {"2023-06-01"}]

\* the operations that call makeRequest with a request to serialise as it is
CreateOps == {"batches.create", "anthropic.batches.create", "openai.batches.create",
              "tokenize"}

\* the operations that call makeRequest without a body
BodilessOps ==
    {"files.list", "files.get", "files.content", "files.delete",
     "batches.list", "batches.get", "batches.cancel", "batches.results",
     "batches.export",
     "anthropic.batches.list", "anthropic.batches.get", "anthropic.batches.cancel",
     "anthropic.batches.results", "anthropic.batches.export",
     "openai.batches.list", "openai.batches.get", "openai.batches.cancel",
     "openai.batches.results",
     "getUsage", "getAnalytics"}

\* the third argument of makeRequest: true at the call sites of openai.batches
UseBearer(op) ==
    op \in {"openai.batches.create", "openai.batches.list", "openai.batches.get",
            "openai.batches.cancel", "openai.batches.results"}

\* the content argument of files.upload
Contents == {"string", "FormData"}

\* fetch(url, { ...options, headers, signal }): what one attempt puts on the
\* wire.  `made` is the attempt in which the headers object and the body text
\* were computed, `signal` the attempt whose controller and timer guard it.
Request(headers, body, made, signal) ==
    [headers |-> headers, body |-> body, made |-> made, signal |-> signal]

\* a public operation is invoked with an argument, on an instance at rest;
\* `after` is the argument object as the caller finds it afterwards
Invoke(op, arg, after) ==
    /\ pc = "idle"
    /\ call = <<>>
    /\ call' = <<[op |-> op, arg |-> arg, after |-> after]>>
    /\ UNCHANGED <<varsR, varsS, varsC, varsT>>

\* makeRequest(endpoint, options, useBearer) up to its first fetch: the headers
\* are built and the first attempt is sent
MakeRequest(optionsHeaders, body, useBearer) ==
    sent' = <<Request(MakeRequestHeaders(apiKey, optionsHeaders, useBearer), body,
                      1, 1)>>

chatUnified(request) ==
    /\ Invoke("chatUnified", request, RequestAfterNormalize(request, UnifiedPairs))
    /\ MakeRequest(NoHeaders, JsonBody(normalizeUnifiedRequest(request)), FALSE)

streamUnified(request) ==
    /\ Invoke("streamUnified", request, request)
    /\ MakeRequest(NoHeaders,
                   JsonBody(normalizeUnifiedRequest(WithStream(request))), FALSE)

chatOpenAI(request) ==
    /\ Invoke("chatOpenAI", request, RequestAfterNormalize(request, OpenAIPairs))
    /\ MakeRequest(NoHeaders, JsonBody(normalizeOpenAIRequest(request)), TRUE)

streamOpenAI(request) ==
    /\ Invoke("streamOpenAI", request, request)
    /\ MakeRequest(NoHeaders,
                   JsonBody(normalizeOpenAIRequest(WithStream(request))), TRUE)

chatAnthropic(request) ==
    /\ Invoke("chatAnthropic", request, request)
    /\ MakeRequest(AnthropicVersion, JsonBody(request), FALSE)

streamAnthropic(request) ==
    /\ Invoke("streamAnthropic", request, request)
    /\ MakeRequest(AnthropicVersion, JsonBody(WithStream(request)), FALSE)

\* files.upload(content): a string goes out as JSON with its Content-Type set
\* in options.headers, a FormData as it is with options.headers = {}
filesUpload(content) ==
    /\ Invoke("files.upload", NullRequest, NullRequest)
    /\ IF content = "string"
       THEN MakeRequest([NoHeaders EXCEPT !["Content-Type"] = {"application/json"}],
                        JsonBody(Object(EmptyObject)), FALSE)
       ELSE MakeRequest(NoHeaders, FormDataBody, FALSE)

\* batches.create, anthropic.batches.create, openai.batches.create, tokenize
Create(op, request) ==
    /\ Invoke(op, request, request)
    /\ MakeRequest(NoHeaders, JsonBody(request), UseBearer(op))

\* the operations without a body
Bodiless(op) ==
    /\ Invoke(op, NullRequest, NullRequest)
    /\ MakeRequest(NoHeaders, NoBody, UseBearer(op))

\* a later iteration of the retry loop: a new controller and timer, and fetch
\* is called with the same options and the same headers object
Refetch ==
    /\ sent # <<>>
    /\ AttemptLeq(Len(sent) + 1, retries)
    /\ sent' = Append(sent, Request(sent[1].headers, sent[1].body, sent[1].made,
                                    Len(sent) + 1))
    /\ UNCHANGED <<call, varsR, varsS, varsC, varsT>>

NextB ==
    \/ \E request \in Requests : chatUnified(request)
    \/ \E request \in Requests : streamUnified(request)
    \/ \E request \in Requests : chatOpenAI(request)
    \/ \E request \in Requests : streamOpenAI(request)
    \/ \E request \in Requests : chatAnthropic(request)
    \/ \E request \in Requests : streamAnthropic(request)
    \/ \E content \in Contents : filesUpload(content)
    \/ \E op \in CreateOps, request \in Requests : Create(op, request)
    \/ \E op \in BodilessOps : Bodiless(op)
    \/ Refetch

\* ------------------------------------------------------------ convenience operations

\* the longest unified stream observed, in frames
MaxFrames == 3

\* a JavaScript value read off a parsed body: the values of JsonParse, and
\* undefined for what is not there
Undefined == <<"undef">>

Null == <<"lit", <<"n", "u", "l", "l">>>>

Str(chars) == <<"str", chars>>

Arr(elements) == <<"arr", elements>>

Obj(members) == <<"obj", members>>

IsNullish(v) == v[1] = "undef" \/ (v[1] = "lit" /\ v = Null)

\* the values JavaScript treats as false in `if (v)` and `v || d`
Falsy(v) ==
    \/ IsNullish(v)
    \/ (v[1] = "lit" /\ v[2] = <<"f", "a", "l", "s", "e">>)
    \/ (v[1] = "num" /\ v[2] = 0)
    \/ (v[1] = "str" /\ v[2] = <<>>)

\* reading a property of undefined or null raises a TypeError
CannotRead == [name |-> "TypeError", message |-> "Cannot read properties"]

\* v.key: the value of the last member of that name, undefined when v has none
Get(v, key) ==
    IF v[1] # "obj" THEN Undefined
    ELSE LET at == {i \in 1..Len(v[2]) : v[2][i][1] = key}
         IN  IF at = {} THEN Undefined
             ELSE v[2][CHOOSE i \in at : \A j \in at : j <= i][2]

\* v[0]: the first element of an array, the first character of a string
Index0(v) ==
    CASE v[1] = "arr" -> IF v[2] = <<>> THEN Undefined ELSE v[2][1]
      [] v[1] = "str" -> IF v[2] = <<>> THEN Undefined ELSE Str(<<v[2][1]>>)
      [] OTHER -> Undefined

\* v?.key
OptGet(v, key) == IF IsNullish(v) THEN Undefined ELSE Get(v, key)

KeyChoices == <<"c", "h", "o", "i", "c", "e", "s">>

KeyMessage == <<"m", "e", "s", "s", "a", "g", "e">>

KeyDelta == <<"d", "e", "l", "t", "a">>

KeyContent == <<"c", "o", "n", "t", "e", "n", "t">>

\* body.choices[0]?.[part]?.content: the value read, or the TypeError raised
\* when body or body.choices is undefined or null
FirstChoiceContent(body, part) ==
    IF IsNullish(body) \/ IsNullish(Get(body, KeyChoices))
    THEN [throws |-> TRUE, value |-> Undefined]
    ELSE [throws |-> FALSE,
          value |-> OptGet(OptGet(Index0(Get(body, KeyChoices)), part),
                           KeyContent)]

\* the same expression without the `|| ''` that follows it
MessageTextNoDefault(reply) ==
    FirstChoiceContent(reply, KeyMessage)

\* response.choices[0]?.message?.content || ''
MessageText(reply) ==
    LET read == FirstChoiceContent(reply, KeyMessage)
    IN  IF ~read.throws /\ Falsy(read.value)
        THEN [throws |-> FALSE, value |-> Str(<<>>)]
        ELSE read

\* a guard that lets every delta through, whatever its content
DeltaTextAlways(chunk) ==
    LET read == FirstChoiceContent(chunk, KeyDelta)
    IN  [throws |-> read.throws, yields |-> ~read.throws, value |-> read.value]

\* const content = chunk.choices[0]?.delta?.content; if (content) yield content
DeltaText(chunk) ==
    LET read == FirstChoiceContent(chunk, KeyDelta)
    IN  [throws |-> read.throws,
         yields |-> ~read.throws /\ ~Falsy(read.value),
         value |-> read.value]

\* the contents a choice carries
Hi == Str(<<"H", "i">>)

Yo == Str(<<"y", "o">>)

\* a choice holding `content` under `part`; Undefined leaves the field out
Choice(part, content) ==
    Obj(<<<<part, IF content = Undefined THEN Obj(<<>>)
                  ELSE Obj(<<<<KeyContent, content>>>>)>>>>)

\* a body with these choices
WithChoices(choices) == Obj(<<<<KeyChoices, Arr(choices)>>>>)

\* the bodies chatUnified resolves to
ResponseShapes ==
    {WithChoices(<<>>),
     WithChoices(<<Obj(<<>>)>>),
     WithChoices(<<Choice(KeyMessage, Undefined)>>),
     WithChoices(<<Choice(KeyMessage, Null)>>),
     WithChoices(<<Choice(KeyMessage, Str(<<>>))>>),
     WithChoices(<<Choice(KeyMessage, Hi)>>),
     WithChoices(<<Choice(KeyMessage, Hi), Choice(KeyMessage, Yo)>>),
     WithChoices(<<Choice(KeyMessage, Str(<<>>)), Choice(KeyMessage, Yo)>>),
     WithChoices(<<Choice(KeyMessage, <<"num", 5>>)>>),
     Obj(<<>>),
     Null}

\* the frames streamUnified yields
FrameShapes ==
    {WithChoices(<<>>),
     WithChoices(<<Choice(KeyDelta, Undefined)>>),
     WithChoices(<<Choice(KeyDelta, Str(<<>>))>>),
     WithChoices(<<Choice(KeyDelta, Hi)>>),
     WithChoices(<<Choice(KeyDelta, Yo)>>),
     WithChoices(<<Choice(KeyDelta, Str(<<>>)), Choice(KeyDelta, Yo)>>),
     Obj(<<>>),
     Null,
     <<"num", 7>>}

FrameSeqs == UNION {[1..n -> FrameShapes] : n \in 0..MaxFrames}

\* the stream option of complete and chat: left out, false or true
StreamOptions == {"undefined", "false", "true"}

\* const { stream = false } = options; if (stream)
WantsStream(option) == option = "true"

ConvOps == {"complete", "chat"}

\* what a convenience operation has returned or thrown: nothing yet
NoReturn == [kind |-> "none", value |-> Undefined, error |-> ""]

Returns(v) == [kind |-> "value", value |-> v, error |-> ""]

Throws(name) == [kind |-> "throw", value |-> Undefined, error |-> name]

\* the AsyncGenerator<string> streamText returns
Generator == [kind |-> "generator", value |-> Undefined, error |-> ""]

\* no convenience operation invoked
IdleC ==
    /\ conv = <<>>
    /\ cpc = "idle"
    /\ ret = NoReturn
    /\ unified = <<>>
    /\ taken = 0
    /\ texts = <<>>

\* the request is built and handed to streamText or to chatUnified
Convenience(op, option) ==
    /\ cpc = "idle"
    /\ conv = <<>>
    /\ conv' = [op |-> op, arg |-> option]
    /\ IF WantsStream(option)
       THEN /\ cpc' = "suspendedStart"
            /\ ret' = Generator
            /\ \E frames \in FrameSeqs : unified' = frames
       ELSE /\ cpc' = "chat"
            /\ UNCHANGED <<ret, unified>>
    /\ UNCHANGED <<taken, texts>>

\* complete(prompt, options)
complete(option) ==
    /\ Convenience("complete", option)
    /\ UNCHANGED <<varsR, varsS, varsB, varsT>>

\* chat(messages, options)
chat(option) ==
    /\ Convenience("chat", option)
    /\ UNCHANGED <<varsR, varsS, varsB, varsT>>

\* chatUnified resolves and the operation returns the text it reads off
ChatResolves(reply) ==
    /\ cpc = "chat"
    /\ unified' = <<reply>>
    /\ LET text == MessageText(reply)
       IN  IF text.throws
           THEN cpc' = "threw" /\ ret' = Throws(CannotRead.name)
           ELSE cpc' = "done" /\ ret' = Returns(text.value)
    /\ UNCHANGED <<conv, taken, texts, varsR, varsS, varsB, varsT>>

\* chatUnified rejects: the error goes to the caller as it is
ChatRejects ==
    /\ cpc = "chat"
    /\ cpc' = "threw"
    /\ ret' = Throws("KushRouterError")
    /\ UNCHANGED <<conv, unified, taken, texts, varsR, varsS, varsB, varsT>>

\* the consumer calls next() on the generator of streamText
NextText ==
    /\ cpc \in {"suspendedStart", "suspendedYield"}
    /\ cpc' = "running"
    /\ UNCHANGED <<conv, ret, unified, taken, texts, varsR, varsS, varsB, varsT>>

\* streamUnified yields its next frame to the loop of streamText
FrameArrives ==
    /\ cpc = "running"
    /\ taken < Len(unified)
    /\ taken' = taken + 1
    /\ LET delta == DeltaText(unified[taken + 1])
       IN  IF delta.throws
           THEN /\ cpc' = "threw"
                /\ ret' = [ret EXCEPT !.error = CannotRead.name]
                /\ UNCHANGED texts
           ELSE IF delta.yields
           THEN /\ cpc' = "suspendedYield"
                /\ texts' = Append(texts, delta.value)
                /\ UNCHANGED ret
           ELSE UNCHANGED <<cpc, ret, texts>>
    /\ UNCHANGED <<conv, unified, varsR, varsS, varsB, varsT>>

\* streamUnified completes: the loop ends and so does the generator
StreamEnds ==
    /\ cpc = "running"
    /\ taken = Len(unified)
    /\ cpc' = "completed"
    /\ UNCHANGED <<conv, ret, unified, taken, texts, varsR, varsS, varsB, varsT>>

\* streamUnified throws: the loop passes the error on
StreamThrows ==
    /\ cpc = "running"
    /\ cpc' = "threw"
    /\ ret' = [ret EXCEPT !.error = "KushRouterError"]
    /\ UNCHANGED <<conv, unified, taken, texts, varsR, varsS, varsB, varsT>>

\* the consumer leaves its loop: return() on the suspended generator
ReturnText ==
    /\ cpc \in {"suspendedStart", "suspendedYield"}
    /\ cpc' = "completed"
    /\ UNCHANGED <<conv, ret, unified, taken, texts, varsR, varsS, varsB, varsT>>

\* the models a cost is asked for; the last one has no pricing entry
CostModels ==
    {"gpt-5-2025-08-07", "gpt-4o-mini-2024-07-18", "claude-sonnet-4@20250514",
     "other-model"}

\* the requests estimateCost is given: each field set or left out
CostRequests ==
    [model : {{}} \cup {{m} : m \in CostModels},
     maxTokens : {{}, {0}, {1500}},
     max_tokens : {{}, {1000}, {1500}}]

\* the token counts tokenize reports
TokenCounts == {0, 12, 1000000}

DefaultCostModel == "gpt-5-2025-08-07"

DefaultOutputTokens == 500

\* the pricing table, per million tokens, in thousandths of a dollar
Pricing ==
    ("gpt-5-2025-08-07" :> [input |-> 1250, output |-> 5000]) @@
    ("gpt-5-mini-2025-08-07" :> [input |-> 250, output |-> 1000]) @@
    ("gpt-4o-2024-11-20" :> [input |-> 1750, output |-> 7000]) @@
    ("gpt-4o-mini-2024-07-18" :> [input |-> 105, output |-> 420]) @@
    ("claude-sonnet-4@20250514" :> [input |-> 2100, output |-> 8400]) @@
    ("claude-3-5-sonnet-v2@20241022" :> [input |-> 2100, output |-> 8400])

\* pricing[request.model || 'gpt-5-2025-08-07'] || pricing['gpt-5-2025-08-07']
ModelPricing(request) ==
    LET model == IF request.model = {} \/ request.model = {""}
                 THEN DefaultCostModel
                 ELSE CHOOSE m \in request.model : TRUE
    IN  IF model \in DOMAIN Pricing THEN Pricing[model]
        ELSE Pricing[DefaultCostModel]

\* request.maxTokens || 500
OutputTokens(request) ==
    IF request.maxTokens = {} \/ request.maxTokens = {0}
    THEN DefaultOutputTokens
    ELSE CHOOSE n \in request.maxTokens : TRUE

\* inputTokens / 1e6 * input + outputTokens / 1e6 * output, in billionths of
\* a dollar, which makes every quotient exact
Cost(request, inputTokens) ==
    inputTokens * ModelPricing(request).input
        + OutputTokens(request) * ModelPricing(request).output

KeyTokens == <<"t", "o", "k", "e", "n", "s">>

\* the body tokenize resolves to
TokenData(n) == Obj(<<<<KeyTokens, <<"num", n>>>>>>)

\* estimateCost(request) up to its await of tokenize
estimateCost(request) ==
    /\ cpc = "idle"
    /\ conv = <<>>
    /\ conv' = [op |-> "estimateCost", arg |-> request]
    /\ cpc' = "tokenize"
    /\ UNCHANGED <<ret, unified, taken, texts, varsR, varsS, varsB, varsT>>

\* tokenize resolves and estimateCost returns the sum of the two costs
TokenizeResolves(n) ==
    /\ cpc = "tokenize"
    /\ unified' = <<TokenData(n)>>
    /\ cpc' = "done"
    /\ ret' = Returns(<<"num", Cost(conv.arg, Get(TokenData(n), KeyTokens)[2])>>)
    /\ UNCHANGED <<conv, taken, texts, varsR, varsS, varsB, varsT>>

\* tokenize rejects: the error goes to the caller as it is
TokenizeRejects ==
    /\ cpc = "tokenize"
    /\ cpc' = "threw"
    /\ ret' = Throws("KushRouterError")
    /\ UNCHANGED <<conv, unified, taken, texts, varsR, varsS, varsB, varsT>>

NextC ==
    \/ \E option \in StreamOptions : complete(option)
    \/ \E option \in StreamOptions : chat(option)
    \/ \E reply \in ResponseShapes : ChatResolves(reply)
    \/ ChatRejects
    \/ NextText
    \/ FrameArrives
    \/ StreamEnds
    \/ StreamThrows
    \/ ReturnText
    \/ \E request \in CostRequests : estimateCost(request)
    \/ \E n \in TokenCounts : TokenizeResolves(n)
    \/ TokenizeRejects

\* ------------------------------------------------------------ concurrent calls and streams

\* how many calls and streams run side by side on the instance
MaxTasks == 2

\* how many bytes a read delivers in the concurrent runs
ReadLen == 10

TaskIds == 1..MaxTasks

\* the local variables of a makeRequest invocation (attempt, lastError, the
\* attempt's controller and timer) and of a stream generator (reader, decoder,
\* buffer, lines): one set per invocation, held in its frame while it waits
Frame ==
    [pc |-> pc, attempt |-> attempt, lastError |-> lastError,
     timers |-> timers, response |-> response, result |-> result,
     exchanges |-> exchanges, sleeps |-> sleeps, armed |-> armed, log |-> log,
     gen |-> gen, hasBody |-> hasBody, input |-> input, source |-> source,
     reader |-> reader, pend |-> pend, buffer |-> buffer, lines |-> lines,
     yielded |-> yielded, exit |-> exit]

\* the frame of a makeRequest call about to start
CallFrame ==
    [pc |-> "idle", attempt |-> 0, lastError |-> {},
     timers |-> {}, response |-> {}, result |-> NoResult,
     exchanges |-> 0, sleeps |-> <<>>, armed |-> <<>>, log |-> <<>>,
     gen |-> "none", hasBody |-> FALSE, input |-> <<>>, source |-> <<>>,
     reader |-> "none", pend |-> <<>>, buffer |-> <<>>, lines |-> <<>>,
     yielded |-> <<>>, exit |-> "none"]

\* the frame of a stream operation whose makeRequest has returned a 2xx
\* response with this body on the first attempt
StreamFrame(body, ms) ==
    [pc |-> "returned", attempt |-> 1, lastError |-> {},
     timers |-> {}, response |-> {[status |-> 200, body |-> "text"]},
     result |-> [kind |-> "response",
                 response |-> {[status |-> 200, body |-> "text"]},
                 error |-> {}],
     exchanges |-> 1, sleeps |-> <<>>, armed |-> <<ms>>,
     log |-> <<[status |-> {200}, error |-> {}]>>,
     gen |-> "suspendedStart", hasBody |-> TRUE, input |-> body, source |-> body,
     reader |-> "none", pend |-> <<>>, buffer |-> <<>>, lines |-> <<>>,
     yielded |-> <<>>, exit |-> "none"]

\* the slot of the task whose continuation is running: its locals are live
OnStack == [CallFrame EXCEPT !.pc = "onstack"]

\* the bodies streamed in the concurrent runs
ConcStreams == {UnitA1 \o UnitA2, UnitA2 \o UnitDone}

\* the statuses answered in the concurrent runs
ConcStatuses == {200, 429}

\* the configurations of the instance in the concurrent runs
ConcConfigs ==
    {[apiKey |-> "sk-test", timeout |-> {}, retries |-> {}],
     [apiKey |-> "sk-test", timeout |-> {Num(5000)}, retries |-> {Num(2)}]}

\* the operations in flight: each a blocking call or a stream
InitialFrames(ms) == {CallFrame} \cup {StreamFrame(body, ms) : body \in ConcStreams}

\* the live locals are those of frame f
Holds(f) ==
    /\ pc = f.pc
    /\ attempt = f.attempt
    /\ lastError = f.lastError
    /\ timers = f.timers
    /\ response = f.response
    /\ result = f.result
    /\ exchanges = f.exchanges
    /\ sleeps = f.sleeps
    /\ armed = f.armed
    /\ log = f.log
    /\ gen = f.gen
    /\ hasBody = f.hasBody
    /\ input = f.input
    /\ source = f.source
    /\ reader = f.reader
    /\ pend = f.pend
    /\ buffer = f.buffer
    /\ lines = f.lines
    /\ yielded = f.yielded
    /\ exit = f.exit

\* a resumption with `attempt` and `buffer` kept on the instance rather than
\* in the frame: the continuation finds the values the last one left
RestoreSharedFields(f) ==
    /\ pc' = f.pc
    /\ lastError' = f.lastError
    /\ timers' = f.timers
    /\ response' = f.response
    /\ result' = f.result
    /\ exchanges' = f.exchanges
    /\ sleeps' = f.sleeps
    /\ armed' = f.armed
    /\ log' = f.log
    /\ gen' = f.gen
    /\ hasBody' = f.hasBody
    /\ input' = f.input
    /\ source' = f.source
    /\ reader' = f.reader
    /\ pend' = f.pend
    /\ lines' = f.lines
    /\ yielded' = f.yielded
    /\ exit' = f.exit
    /\ UNCHANGED <<attempt, buffer>>

\* a continuation resumes with the locals of its own frame
Restore(f) ==
    /\ pc' = f.pc
    /\ attempt' = f.attempt
    /\ lastError' = f.lastError
    /\ timers' = f.timers
    /\ response' = f.response
    /\ result' = f.result
    /\ exchanges' = f.exchanges
    /\ sleeps' = f.sleeps
    /\ armed' = f.armed
    /\ log' = f.log
    /\ gen' = f.gen
    /\ hasBody' = f.hasBody
    /\ input' = f.input
    /\ source' = f.source
    /\ reader' = f.reader
    /\ pend' = f.pend
    /\ buffer' = f.buffer
    /\ lines' = f.lines
    /\ yielded' = f.yielded
    /\ exit' = f.exit

\* no task at all
IdleT ==
    /\ tasks = <<>>
    /\ running = 0

\* an instance with MaxTasks operations in flight, the first one running
ConcInit ==
    /\ config \in ConcConfigs
    /\ baseURL = BaseURL
    /\ apiKey = config.apiKey
    /\ timeout = CtorTimeout(config)
    /\ retries = CtorRetries(config)
    /\ running = 1
    /\ \E fs \in [TaskIds -> InitialFrames(timeout)] :
         /\ tasks = [fs EXCEPT ![1] = OnStack]
         /\ Holds(fs[1])
    /\ call = <<>>
    /\ sent = <<>>
    /\ IdleC

\* the running continuation reaches an await and the event loop resumes the
\* continuation of task i
Switch(i) ==
    /\ i # running
    /\ tasks' = [tasks EXCEPT ![running] = Frame, ![i] = OnStack]
    /\ running' = i
    /\ Restore(tasks[i])
    /\ UNCHANGED <<config, baseURL, apiKey, timeout, retries, varsB, varsC>>

\* reader.read() resolves with the next ReadLen bytes, or with what is left
ReadNext ==
    /\ source # <<>>
    /\ ReadChunk(IF Len(source) < ReadLen THEN Len(source) ELSE ReadLen)

ConcNext ==
    \/ \E i \in TaskIds : Switch(i)
    \/ Call
    \/ StartAttempt
    \/ \E status \in ConcStatuses : FetchResponds(status, "empty")
    \/ FetchRejects
    \/ SleepElapses
    \/ Start
    \/ ReadNext
    \/ ReadDone
    \/ ProcessLine
    \/ ReadAgain
    \/ Resume

\* ------------------------------------------------------------ specifications

\* the stream variables while no stream is open
IdleS ==
    /\ gen = "none"
    /\ hasBody = FALSE
    /\ input = <<>>
    /\ source = <<>>
    /\ reader = "none"
    /\ pend = <<>>
    /\ buffer = <<>>
    /\ lines = <<>>
    /\ yielded = <<>>
    /\ exit = "none"

\* makeRequest has returned a 2xx response to the stream operation, on the
\* first attempt of an instance with the default configuration
ReturnedR ==
    /\ config = [apiKey |-> "sk-test", timeout |-> {}, retries |-> {}]
    /\ baseURL = BaseURL
    /\ apiKey = "sk-test"
    /\ timeout = Num(DefaultTimeout)
    /\ retries = Num(DefaultRetries)
    /\ pc = "returned"
    /\ attempt = 1
    /\ lastError = {}
    /\ timers = {}
    /\ response = {[status |-> 200, body |-> "text"]}
    /\ result = [kind |-> "response", response |-> response, error |-> {}]
    /\ exchanges = 1
    /\ sleeps = <<>>
    /\ armed = <<Num(DefaultTimeout)>>
    /\ log = <<[status |-> {200}, error |-> {}]>>

\* the request-building variables while no operation is observed
IdleB ==
    /\ call = <<>>
    /\ sent = <<>>

Init == InitR /\ IdleS /\ IdleB /\ IdleC /\ IdleT

StreamInit == ReturnedR /\ InitS /\ IdleB /\ IdleC /\ IdleT

\* one makeRequest call on a new instance
Spec == Init /\ [][NextR]_vars

\* the exchange in flight responds, fails or is aborted by its deadline
FetchEnds ==
    \/ \E status \in Statuses, body \in Bodies : FetchResponds(status, body)
    \/ FetchRejects
    \/ (pc = "fetch" /\ TimerFires(attempt))

\* that call when every exchange ends, every sleep elapses and the code
\* between two awaits runs on
LiveSpec ==
    /\ Spec
    /\ WF_vars(StartAttempt)
    /\ WF_vars(LoopExit)
    /\ WF_vars(FetchEnds)
    /\ WF_vars(SleepElapses)

\* one stream operation from the point where its makeRequest has returned
StreamSpec == StreamInit /\ [][NextS]_vars

\* an instance with the default configuration, no call made yet
ConstructedR ==
    /\ config = [apiKey |-> "sk-test", timeout |-> {}, retries |-> {}]
    /\ baseURL = BaseURL
    /\ apiKey = "sk-test"
    /\ timeout = Num(DefaultTimeout)
    /\ retries = Num(DefaultRetries)
    /\ pc = "idle"
    /\ attempt = 0
    /\ lastError = {}
    /\ timers = {}
    /\ response = {}
    /\ result = NoResult
    /\ exchanges = 0
    /\ sleeps = <<>>
    /\ armed = <<>>
    /\ log = <<>>

BuildInit == ConstructedR /\ IdleS /\ IdleB /\ IdleC /\ IdleT

\* one public operation on that instance: the requests it hands to fetch
BuildSpec == BuildInit /\ [][NextB]_vars

\* one convenience operation on that instance, from its call to its result
ConvSpec == BuildInit /\ [][NextC]_vars

\* MaxTasks operations on one instance, their steps interleaved in any order
ConcSpec == ConcInit /\ [][ConcNext]_vars

\* ------------------------------------------------------------ claims: makeRequest

Terminated == pc \in {"returned", "raised"}

\* the retry ceiling is an integer N >= 1
IntegerCeiling == ~retries.half /\ retries.whole >= 1

\* a status of the 2xx class
Is2xx(s) == s \in 200..299

\* attempt i received a non-2xx answer other than 401/402/429, or failed in transport
GenericFailure(i) ==
    \/ log[i].status = {}
    \/ \E s \in log[i].status : ~Is2xx(s) /\ s \notin {401, 402, 429}

\* attempt i failed in a way the loop retries
RetryableFailure(i) == log[i].status = {429} \/ GenericFailure(i)

ErrorNamed(errs, name) == errs # {} /\ \A e \in errs : e.name = name

\* C1: an attempt that receives 401 (402) is the call's last: the call raises
\* AuthenticationError (InsufficientCreditsError) with no sleep and no exchange
\* after that response.
C1_AuthIsFinal ==
    \A i \in DOMAIN log :
        (log[i].status = {401} \/ log[i].status = {402}) =>
            /\ i = Len(log)
            /\ pc = "raised"
            /\ exchanges = i
            /\ Len(sleeps) = i - 1
            /\ ErrorNamed(result.error,
                          IF log[i].status = {401} THEN "AuthenticationError"
                          ELSE "InsufficientCreditsError")

\* C2: with an integer ceiling N >= 1 and 429 on every attempt, the call makes
\* N exchanges, sleeps 2^k * 1000 ms after failed attempt k < N, and raises
\* RateLimitError.
C2_RateLimitEveryAttempt ==
    (Terminated /\ IntegerCeiling /\ \A i \in DOMAIN log : log[i].status = {429}) =>
        /\ exchanges = retries.whole
        /\ sleeps = [k \in 1..(retries.whole - 1) |-> Pow2(k) * 1000]
        /\ pc = "raised"
        /\ ErrorNamed(result.error, "RateLimitError")

C4_LastErrorSurfaced ==
    (Terminated /\ IntegerCeiling /\ \A i \in DOMAIN log : RetryableFailure(i)) =>
        /\ Len(log) = retries.whole
        /\ pc = "raised"
        /\ result.kind = "error"
        /\ result.error # {}
        /\ result.error = log[retries.whole].error
        /\ \A e \in result.error : e.att = retries.whole

C4_Witness ==
    /\ pc = "raised"
    /\ retries = Num(3)
    /\ Len(log) = 3
    /\ log[1].status = {500} /\ log[2].status = {} /\ log[3].status = {429}
    /\ ErrorNamed(result.error, "RateLimitError")
    /\ \A e \in lastError : e.att = 3

\* C5: an attempt that receives a 2xx response is the call's last: the call
\* returns that response, with no sleep and no exchange after it and no error
\* surfaced.
C5_SuccessReturns ==
    \A i \in DOMAIN log :
        (\E s \in log[i].status : Is2xx(s)) =>
            /\ i = Len(log)
            /\ pc = "returned"
            /\ result.kind = "response"
            /\ result.error = {}
            /\ result.response = response
            /\ \A rsp \in result.response : {rsp.status} = log[i].status
            /\ exchanges = i
            /\ Len(sleeps) = i - 1

C5_Witness ==
    /\ pc = "returned"
    /\ Len(log) = 3
    /\ log[1].status = {429} /\ log[2].status = {500} /\ log[3].status = {204}
    /\ lastError # {}
    /\ sleeps = <<2000, 2000>>

\* the error class the status of a non-2xx response stands for
KindOfStatus(status) ==
    CASE status = 401 -> "AuthenticationError"
      [] status = 402 -> "InsufficientCreditsError"
      [] status = 429 -> "RateLimitError"
      [] OTHER -> "KushRouterError"

\* C6: the class of the error an attempt produces for a non-2xx response is
\* decided by the status alone, whatever the body; a Generic error carries the
\* status.
C6_KindByStatusAlone ==
    \A i \in DOMAIN log : \A s \in log[i].status : \A e \in log[i].error :
        /\ e.name = KindOfStatus(s)
        /\ e.status = {s}



\* ------------------------------------------------------------ claims: stream decoder

\* the generator has finished, by completing or by throwing
Finished == gen \in {"completed", "threw"}

\* the generator ran to the end of the body or to the sentinel: the consumer
\* pulled to the end and no read failed
RanOut == exit \in {"eof", "done"}

IsPrefix(a, b) == Len(a) <= Len(b) /\ a = SubSeq(b, 1, Len(a))

\* the frames the for loop yields for a list of lines, run in one go
RECURSIVE RunLines(_)
RunLines(ls) ==
    IF ls = <<>> THEN <<>>
    ELSE LET act == LineAction(Head(ls)) IN
         IF act.kind = "return" THEN <<>>
         ELSE IF act.kind = "yield" THEN <<act.frame>> \o RunLines(Tail(ls))
         ELSE RunLines(Tail(ls))

\* what the decoder yields when the whole body arrives as one chunk
UnsplitFrames(bytes) ==
    RunLines(Front(Split(<<>> \o Decode(<<>>, bytes).text)))

FrameA1 == <<"obj", << << <<"a">>, <<"num", 1>> >> >> >>

FrameA2 == <<"obj", << << <<"a">>, <<"num", 2>> >> >> >>

\* C7: whatever the partition of the body into chunks, the frames yielded are
\* those of the unsplit body: always a prefix of them, and all of them once the
\* decoder has run out; for the documented example they are {a:1}, {a:2} and
\* the sequence ends on the sentinel.
C7_SplitInvariant ==
    /\ IsPrefix(yielded, UnsplitFrames(input))
    /\ RanOut => yielded = UnsplitFrames(input)
    /\ (input = Example /\ Finished /\ exit \notin {"return", "error", "nobody"}) =>
          (yielded = <<FrameA1, FrameA2>> /\ exit = "done" /\ gen = "completed")

\* the example read in pieces that end inside a line and inside 'data: '
C7_Witness ==
    /\ input = Example
    /\ exit = "done"
    /\ yielded = <<FrameA1, FrameA2>>
    /\ source # <<>>

\* a body with the two-byte character, read to its end
C7_WitnessSplitChar ==
    /\ input = UnitA1 \o UnitAccent
    /\ exit = "eof"
    /\ yielded = <<FrameA1, <<"str", <<"U+E9">>>>>>

\* C8: a generator that has finished does not hold the reader: if the reader
\* was taken it has been released, after end of input, after the sentinel,
\* after the consumer's return() and after a failed read alike.
C8_ReaderReleased ==
    Finished =>
        /\ reader # "locked"
        /\ (exit \in {"eof", "done", "error"} => reader = "released")
        /\ (exit = "return" /\ yielded # <<>> => reader = "released")

\* the consumer broke out of the loop with input left
C8_Witness ==
    /\ gen = "completed"
    /\ exit = "return"
    /\ reader = "released"
    /\ yielded # <<>>
    /\ source # <<>>

\* the complete lines of a body: its decoded text cut at the newlines, without
\* what follows the last newline
CompleteLines(bytes) == Front(Split(Decode(<<>>, bytes).text))

Payload(line) == Trim(Slice6(line))

IsDoneLine(line) == StartsWithData(line) /\ Payload(line) = DoneSentinel

IsFrameLine(line) ==
    StartsWithData(line) /\ ~IsDoneLine(line) /\ JsonParse(Payload(line)).ok

IsBadLine(line) ==
    StartsWithData(line) /\ ~IsDoneLine(line) /\ ~JsonParse(Payload(line)).ok

\* the values of the valid data lines that come before the first sentinel line
RECURSIVE FramesBeforeDone(_)
FramesBeforeDone(ls) ==
    IF ls = <<>> \/ IsDoneLine(Head(ls)) THEN <<>>
    ELSE IF IsFrameLine(Head(ls))
    THEN <<JsonParse(Payload(Head(ls))).val>> \o FramesBeforeDone(Tail(ls))
    ELSE FramesBeforeDone(Tail(ls))

\* all values of the valid data lines, sentinel or not
RECURSIVE FramesOfLines(_)
FramesOfLines(ls) ==
    IF ls = <<>> THEN <<>>
    ELSE IF IsFrameLine(Head(ls))
    THEN <<JsonParse(Payload(Head(ls))).val>> \o FramesOfLines(Tail(ls))
    ELSE FramesOfLines(Tail(ls))

HasDoneLine(ls) == \E i \in DOMAIN ls : IsDoneLine(ls[i])

\* C9: on a sentinel line the sequence completes: every frame of the lines
\* before it has been yielded, no frame of a later line is ever yielded, the
\* sentinel is no frame, and a decoder that ran out over a body with a sentinel
\* line ended on it and not at end of input; once ended, nothing more is read.
C9_DoneInvariant ==
    /\ exit = "done" =>
          /\ gen = "completed"
          /\ lines # <<>> /\ IsDoneLine(Head(lines))
          /\ yielded = FramesBeforeDone(CompleteLines(input))
    /\ HasDoneLine(CompleteLines(input)) =>
          /\ IsPrefix(yielded, FramesBeforeDone(CompleteLines(input)))
          /\ exit # "eof"

C9_NothingAfterDone ==
    [][exit = "done" => UNCHANGED <<source, buffer, lines, yielded, gen, exit>>]_vars

C9_DoneTerminates == []C9_DoneInvariant /\ C9_NothingAfterDone

\* the sentinel line, with a valid frame before it and one after it
C9_Witness ==
    /\ input = AfterDone
    /\ exit = "done"
    /\ yielded = <<FrameA1>>

\* the body has a bad data line, a data line whose payload does not parse,
\* before any sentinel
BadLineBeforeDone(ls) ==
    \E i \in DOMAIN ls :
        IsBadLine(ls[i]) /\ \A j \in 1..(i - 1) : ~IsDoneLine(ls[j])

\* C10: a complete data line whose payload is not valid JSON is passed over:
\* the step that visits it yields nothing and ends nothing, and a decoder that
\* runs out has yielded, in order, every valid frame before the sentinel, those
\* after the bad line included; the generator throws only for a failed read or
\* a missing body.
C10_BadLineStep ==
    [][(gen = "lines" /\ lines # <<>> /\ IsBadLine(Head(lines))) =>
          /\ gen' = "lines"
          /\ lines' = Tail(lines)
          /\ UNCHANGED <<yielded, exit, reader, buffer, source>>]_vars

C10_BadLineInvariant ==
    /\ gen = "threw" => exit \in {"error", "nobody"}
    /\ (RanOut /\ BadLineBeforeDone(CompleteLines(input))) =>
          yielded = FramesBeforeDone(CompleteLines(input))

C10_BadLineSkipped == []C10_BadLineInvariant /\ C10_BadLineStep

\* data: not-json, then a valid frame, read to the end
C10_Witness ==
    /\ input = UnitNotJson \o UnitA1
    /\ exit = "eof"
    /\ yielded = <<FrameA1>>

\* ------------------------------------------------------------ claims: stream ends

\* C11: when the byte source signals end of input and no sentinel line was
\* processed, the sequence completes normally: the step that sees the end
\* yields nothing, raises nothing and releases the reader; the frames of all
\* complete lines have been yielded, there are finitely many, and nothing
\* happens afterwards.
C11_EofInvariant ==
    /\ Len(yielded) <= Len(CompleteLines(input))
    /\ exit = "eof" =>
          /\ gen = "completed"
          /\ source = <<>>
          /\ lines = <<>>
          /\ ~HasDoneLine(CompleteLines(input))
          /\ yielded = FramesBeforeDone(CompleteLines(input))

C11_EofStep ==
    [][/\ (gen = "reading" /\ source = <<>> /\ exit' # "error") =>
              /\ gen' = "completed"
              /\ exit' = "eof"
              /\ reader' = "released"
              /\ yielded' = yielded
       /\ exit = "eof" => UNCHANGED varsS]_vars

C11_EofEndsCleanly == []C11_EofInvariant /\ C11_EofStep

\* two frames and no sentinel, read to the end
C11_Witness ==
    /\ input = UnitA1 \o UnitA2
    /\ exit = "eof"
    /\ gen = "completed"
    /\ yielded = <<FrameA1, FrameA2>>

\* the bytes the reader has delivered so far
Consumed == SubSeq(input, 1, Len(input) - Len(source))

\* C12: frames come out in the order of their data lines, one per line, and a
\* frame only once its whole line, newline included, has been read: what has
\* been yielded and what the waiting lines still hold are together the frames
\* of the complete lines of the bytes read; a read is issued only when no line
\* is waiting, and a step that yields takes exactly the first waiting line.
C12_OrderInvariant ==
    /\ IsPrefix(yielded, FramesBeforeDone(CompleteLines(Consumed)))
    /\ gen = "reading" =>
          /\ lines = <<>>
          /\ yielded = FramesBeforeDone(CompleteLines(Consumed))
    /\ gen \in {"lines", "suspendedYield"} =>
          yielded \o RunLines(lines) = FramesBeforeDone(CompleteLines(Consumed))

C12_OrderStep ==
    [][/\ source' # source => (gen = "reading" /\ lines = <<>>)
       /\ yielded' # yielded =>
              /\ lines # <<>>
              /\ IsFrameLine(Head(lines))
              /\ yielded' = Append(yielded, JsonParse(Payload(Head(lines))).val)
              /\ lines' = Tail(lines)]_vars

C12_InOrder == []C12_OrderInvariant /\ C12_OrderStep

\* both frames arrived in one chunk; the first is out, the second waits
C12_Witness ==
    /\ input = UnitA1 \o UnitA2
    /\ source = <<>>
    /\ gen = "suspendedYield"
    /\ yielded = <<FrameA1>>
    /\ RunLines(lines) = <<FrameA2>>

\* C16: once the consumer has returned from a sequence suspended at a yielded
\* frame, the generator is completed and nothing moves: no byte is read, the
\* buffer and the waiting lines stay as they are and no frame is yielded; the
\* return itself reads and yields nothing.
C16_AbandonedInvariant ==
    exit = "return" => (gen = "completed" /\ reader # "locked")

C16_AbandonedStep ==
    [][/\ exit = "return" =>
              UNCHANGED <<source, pend, buffer, lines, yielded, gen, reader, exit>>
       /\ (gen = "suspendedYield" /\ exit' = "return") =>
              UNCHANGED <<source, pend, buffer, lines, yielded>>]_vars

C16_Abandoned == []C16_AbandonedInvariant /\ C16_AbandonedStep

\* the consumer left after the first frame, with lines waiting and bytes unread
C16_Witness ==
    /\ input = Example
    /\ exit = "return"
    /\ yielded = <<FrameA1>>
    /\ lines # <<>>
    /\ source # <<>>

\* ------------------------------------------------------------ claims: deadlines, errors, ceiling

\* the step in which the deadline of the attempt in flight fires
DeadlineFires ==
    /\ pc = "fetch"
    /\ attempt \in timers /\ attempt \notin timers'
    /\ Len(log') = Len(log) + 1
    /\ log'[Len(log')].status = {}

\* C13: every attempt arms its own deadline of this.timeout ms (config.timeout,
\* or 30000); when the deadline of the attempt in flight fires, the attempt
\* fails with the abort error, which is handled as a Generic failure: on
\* attempt k below the ceiling the call sleeps 1000 * k ms and then starts
\* attempt k + 1, on the last attempt the abort error is raised.  The timer of
\* an earlier attempt does nothing to the attempt in flight.
C13_DeadlineInvariant ==
    /\ timeout = CtorTimeout(config)
    /\ Len(armed) = exchanges
    /\ \A i \in DOMAIN armed : armed[i] = timeout
    /\ pc = "fetch" => timers \subseteq 1..attempt
    /\ \A i \in DOMAIN log :
          ErrorNamed(log[i].error, "AbortError") => GenericFailure(i)
    /\ (IntegerCeiling /\ pc = "loop" /\ log # <<>>
          /\ ErrorNamed(log[Len(log)].error, "AbortError")) =>
              /\ attempt = Len(log) + 1
              /\ AttemptLeq(attempt, retries)

C13_DeadlineStep ==
    [][/\ exchanges' # exchanges =>
              /\ attempt \notin timers
              /\ timers' = timers \cup {attempt}
              /\ armed' = Append(armed, timeout)
       /\ DeadlineFires =>
              /\ ErrorNamed(log'[Len(log')].error, "AbortError")
              /\ lastError' = log'[Len(log')].error
              /\ \A e \in lastError' : e.att = attempt
              /\ UNCHANGED <<attempt, exchanges, response>>
              /\ IF AttemptEq(attempt, retries)
                 THEN /\ pc' = "raised"
                      /\ result'.error = lastError'
                      /\ sleeps' = sleeps
                 ELSE /\ pc' = "sleep"
                      /\ sleeps' = Append(sleeps, 1000 * attempt)
                      /\ result' = result
       /\ (\E k \in timers : k \notin timers' /\ ~(pc = "fetch" /\ k = attempt)) =>
              UNCHANGED <<pc, attempt, lastError, result, sleeps, log, exchanges>>
       /\ (pc = "sleep" /\ pc' # pc) => (pc' = "loop" /\ attempt' = attempt + 1)]_vars

C13_DeadlinePerAttempt == []C13_DeadlineInvariant /\ C13_DeadlineStep

\* the deadline fires on both attempts of a call with ceiling 2
C13_Witness ==
    /\ pc = "raised"
    /\ retries = Num(2)
    /\ timeout = Num(5000)
    /\ Len(log) = 2
    /\ ErrorNamed(log[1].error, "AbortError")
    /\ ErrorNamed(log[2].error, "AbortError")
    /\ sleeps = <<1000>>
    /\ armed = <<Num(5000), Num(5000)>>
    /\ ErrorNamed(result.error, "AbortError")

\* C14: whatever a call raises is an error of the KushRouterError hierarchy.
C14_TypedErrors ==
    pc = "raised" =>
        /\ result.error # {}
        /\ \A e \in result.error : IsKushRouterError(e)

\* C15: with an integer ceiling N >= 1 the attempt counter of a running call is
\* within 1..N, at most N exchanges are issued, a finished call has issued at
\* least one, and each attempt issues one; a config without retries gives the
\* ceiling 3.
C15_AttemptsBounded ==
    /\ config.retries = {} => retries = Num(3)
    /\ IntegerCeiling =>
          /\ pc \notin {"idle", "noinstance"} => attempt \in 1..retries.whole
          /\ exchanges \in 0..retries.whole
          /\ pc = "loop" => exchanges = attempt - 1
          /\ pc \in {"fetch", "sleep", "returned", "raised"} => exchanges = attempt
          /\ Terminated => exchanges \in 1..retries.whole

\* the default ceiling, used up
C15_Witness ==
    /\ config.retries = {}
    /\ pc = "raised"
    /\ attempt = 3
    /\ exchanges = 3
    /\ \A i \in DOMAIN log : RetryableFailure(i)

\* ------------------------------------------------------------ claims: requests on the wire

\* the operations by the surface they belong to
ApiKeyHeaderOps ==
    {"chatUnified", "streamUnified",
     "files.upload", "files.list", "files.get", "files.content", "files.delete",
     "batches.create", "batches.list", "batches.get", "batches.cancel",
     "batches.results", "batches.export",
     "anthropic.batches.create", "anthropic.batches.list", "anthropic.batches.get",
     "anthropic.batches.cancel", "anthropic.batches.results",
     "anthropic.batches.export",
     "tokenize", "getUsage", "getAnalytics"}

BearerHeaderOps ==
    {"chatOpenAI", "streamOpenAI",
     "openai.batches.create", "openai.batches.list", "openai.batches.get",
     "openai.batches.cancel", "openai.batches.results"}

AnthropicChatOps == {"chatAnthropic", "streamAnthropic"}

\* C17: every request sent has exactly one of x-api-key and Authorization:
\* x-api-key with the key for the unified, files, batch, tokenize, usage and
\* analytics operations and for the Anthropic chat operations, which also send
\* anthropic-version 2023-06-01; Authorization: Bearer <key> for the OpenAI chat
\* and batch operations.
C17_OneAuthHeader ==
    \A i \in DOMAIN sent :
        LET h == sent[i].headers
            op == call[1].op IN
        /\ op \in ApiKeyHeaderOps \cup BearerHeaderOps \cup AnthropicChatOps
        /\ (h["x-api-key"] = {}) # (h["Authorization"] = {})
        /\ op \in ApiKeyHeaderOps \cup AnthropicChatOps =>
              (h["x-api-key"] = {apiKey} /\ h["Authorization"] = {})
        /\ op \in BearerHeaderOps =>
              (h["Authorization"] = {"Bearer " \o apiKey} /\ h["x-api-key"] = {})
        /\ op \in AnthropicChatOps => h["anthropic-version"] = {"2023-06-01"}

\* the second attempt of an OpenAI batch listing
C17_Witness ==
    /\ call # <<>>
    /\ call[1].op = "openai.batches.list"
    /\ Len(sent) = 2
    /\ sent[2].headers["Authorization"] = {"Bearer sk-test"}
    /\ sent[2].headers["x-api-key"] = {}

\* C18: a request with a FormData body goes out without a Content-Type header,
\* on every attempt; every other request has Content-Type: application/json.
C18_ContentType ==
    \A i \in DOMAIN sent :
        IF sent[i].body.kind = "formdata"
        THEN sent[i].headers["Content-Type"] = {}
        ELSE sent[i].headers["Content-Type"] = {"application/json"}

\* the operations that take a chat request, and the request they were given
ChatOps == {"chatUnified", "streamUnified", "chatOpenAI", "streamOpenAI",
            "chatAnthropic", "streamAnthropic"}

\* a value a caller has set explicitly
Explicit(v) == v \in {"null", "0", "false", "''", "A", "B"}

\* C19: when the request of a chat operation has both spellings of a field,
\* with different explicitly set values, the body sent has the wire-form key
\* with the caller's wire-form value.
C19_WireFormWins ==
    \A i \in DOMAIN sent :
        (call[1].op \in ChatOps /\ call[1].arg.t = "object") =>
            \A p \in Pairs :
                LET c == call[1].arg.f[p[1]]
                    w == call[1].arg.f[p[2]] IN
                (Explicit(c) /\ Explicit(w) /\ c # w) =>
                    sent[i].body.json.f[p[2]] = w

\* the fields of the claim: all pairs but responseFormat / response_format
C20Pairs == Pairs \ {<<"responseFormat", "response_format">>}

\* C20: the body a chat operation sends has no alternate-form key of the six
\* fields, and has the wire-form key of every such field the caller supplied
\* in alternate form.
C20_NoAlternateForm ==
    \A i \in DOMAIN sent :
        (call[1].op \in ChatOps /\ call[1].arg.t = "object") =>
            \A p \in C20Pairs :
                /\ sent[i].body.json.f[p[1]] = Absent
                /\ Defined(call[1].arg.f[p[1]]) => sent[i].body.json.f[p[2]] # Absent

\* ------------------------------------------------------------ claims: construction, classification, backoff

\* C23: a config whose apiKey is empty or missing makes the constructor throw:
\* there is no instance and nothing can be called; every instance has a key
\* that is a non-empty string.
C23_KeyInvariant ==
    /\ config.apiKey \in {"", UndefinedKey} =>
          /\ pc = "noinstance"
          /\ result.kind = "error"
          /\ ErrorNamed(result.error, "Error")
    /\ pc # "noinstance" => (apiKey = config.apiKey /\ apiKey \notin {"", UndefinedKey})

C23_NoStepWithoutInstance == [][pc # "noinstance"]_vars

C23_KeyRequired == []C23_KeyInvariant /\ C23_NoStepWithoutInstance

\* createKushRouterSDK({ apiKey: '' })
C23_Witness ==
    /\ config.apiKey = ""
    /\ pc = "noinstance"
    /\ \A e \in result.error : e.message = "API key is required"

\* the attempt that ended last received a response and threw
LastAttemptResponded ==
    /\ pc \in {"sleep", "raised"}
    /\ log # <<>>
    /\ log[Len(log)].status # {}
    /\ response # {}

\* C24: the error an attempt builds for a non-2xx response has as its code the
\* type string of the body's error object, and no code when the body has none.
C24_ProviderCode ==
    LastAttemptResponded =>
        \A rsp \in response : \A e \in log[Len(log)].error :
            IsKushRouterError(e) => e.code = ErrType(ErrorData(rsp.body))

\* the message an error of a status has when the body names none
DefaultMessage(s) ==
    CASE s = 401 -> "Invalid API key"
      [] s = 402 -> "Insufficient credits"
      [] s = 429 -> "Rate limit exceeded"
      [] s = 404 -> "HTTP 404"
      [] s = 500 -> "HTTP 500"

\* a body response.json() cannot parse
Unparsable == {"text", "empty"}

\* C25: a non-2xx response whose body is not JSON is handled as if the body
\* were {}: the attempt takes the same branch, and the error it builds is of
\* the class of the status with the default message; the parse failure itself
\* is never what the attempt throws.
C25_UnparsableAsEmpty ==
    /\ pc = "loop" =>
          \A status \in Statuses, body \in Unparsable :
              TryBlock(status, body, attempt, retries)
                  = TryBlock(status, "object", attempt, retries)
    /\ (LastAttemptResponded /\ \E rsp \in response : rsp.body \in Unparsable) =>
          \A s \in log[Len(log)].status :
              /\ log[Len(log)].error = {} => s = 429
              /\ \A e \in log[Len(log)].error :
                    /\ e.name = KindOfStatus(s)
                    /\ e.message = DefaultMessage(s)
                    /\ e.status = {s}

\* HTTP 500 with a body that is no JSON, on the last attempt
C25_Witness ==
    /\ pc = "raised"
    /\ response = {[status |-> 500, body |-> "text"]}
    /\ Len(log) = 2
    /\ log[1].status = {429} /\ log[2].status = {500}
    /\ \A e \in result.error : e.message = "HTTP 500" /\ e.name = "KushRouterError"

\* C30: with an integer ceiling N >= 1, whatever the outcomes, failed attempt k
\* that is not the last is followed by exactly one sleep, of 2^k * 1000 ms if
\* it received 429 and of 1000 * k ms otherwise, and the last attempt by none.
C30_OneSleepPerRetry ==
    IntegerCeiling =>
        /\ Len(sleeps) = IF Terminated THEN Len(log) - 1 ELSE Len(log)
        /\ \A k \in DOMAIN sleeps :
              sleeps[k] = IF log[k].status = {429} THEN Pow2(k) * 1000 ELSE 1000 * k

\* a connection failure, a 429 and a 500
C30_Witness ==
    /\ pc = "raised"
    /\ retries = Num(3)
    /\ Len(log) = 3
    /\ log[1].status = {} /\ log[2].status = {429} /\ log[3].status = {500}
    /\ sleeps = <<1000, 4000>>

\* ------------------------------------------------------------ claims: lines without data

\* the line begins with the six characters 'data: '
BeginsData(line) ==
    Len(line) >= 6 /\ SubSeq(line, 1, 6) = <<"d", "a", "t", "a", ":", " ">>

\* C26: a complete line that does not begin with 'data: ' is passed over: the
\* step that visits it only moves to the next line, yielding nothing, raising
\* nothing and ending nothing; the frames a decoder that ran out has yielded
\* are those of the body with such lines taken out.
C26_OtherLineInvariant ==
    RanOut =>
        yielded = FramesBeforeDone(SelectSeq(CompleteLines(input), BeginsData))

C26_OtherLineStep ==
    [][(gen = "lines" /\ lines # <<>> /\ ~BeginsData(Head(lines))) =>
          /\ gen' = "lines"
          /\ lines' = Tail(lines)
          /\ UNCHANGED <<yielded, exit, reader, buffer, pend, source>>]_vars

C26_OtherLinesDiscarded == []C26_OtherLineInvariant /\ C26_OtherLineStep

\* an event: line, a frame and a blank line, read to the end
C26_Witness ==
    /\ input = UnitEvent \o UnitA1
    /\ exit = "eof"
    /\ yielded = <<FrameA1>>

\* ------------------------------------------------------------ claims: convenience operations

\* the content of the first choice of a body that has a choices array
FirstContent(body, part) ==
    LET choices == Get(body, KeyChoices)[2]
    IN  IF choices = <<>> THEN Undefined
        ELSE OptGet(OptGet(choices[1], part), KeyContent)

IsText(v) == v[1] = "str" /\ v[2] # <<>>

\* a body of the declared shape: an object with a choices array whose first
\* choice, if it has content at all, has a string (or null) for it
HasChoices(body) ==
    /\ body[1] = "obj"
    /\ Get(body, KeyChoices)[1] = "arr"

IsChatResponse(body, part) ==
    /\ HasChoices(body)
    /\ FirstContent(body, part)[1] \in {"undef", "str", "lit"}

NonStreaming ==
    /\ conv # <<>>
    /\ conv.op \in {"complete", "chat"}
    /\ conv.arg \in {"undefined", "false"}

Streaming ==
    /\ conv # <<>>
    /\ conv.op \in {"complete", "chat"}
    /\ conv.arg = "true"

\* C21: complete() and chat() without stream (false or left out) return a
\* string: the message content of the first choice of the unified response
\* when that is a non-empty string, the empty string when there is no first
\* choice or its content is missing or empty; never a generator and never
\* the response object.  The response is a ChatResponse: an object with a
\* choices array and string content.
C21_ReturnsContent ==
    NonStreaming =>
        /\ ret.kind # "generator"
        /\ (cpc = "done" /\ IsChatResponse(unified[1], KeyMessage)) =>
              /\ ret.kind = "value"
              /\ ret.value[1] = "str"
              /\ ret.value # unified[1]
              /\ IF IsText(FirstContent(unified[1], KeyMessage))
                 THEN ret.value = FirstContent(unified[1], KeyMessage)
                 ELSE ret.value = Str(<<>>)

\* chat() without a stream option got a response with two choices and returned
\* the content of the first
C21_Witness ==
    /\ cpc = "done"
    /\ conv = [op |-> "chat", arg |-> "undefined"]
    /\ unified = <<WithChoices(<<Choice(KeyMessage, Hi), Choice(KeyMessage, Yo)>>)>>
    /\ ret = Returns(Hi)

\* the non-empty first-choice delta contents of these frames, in order
DeltaContents(frames) ==
    SelectSeq([i \in 1..Len(frames) |-> FirstContent(frames[i], KeyDelta)],
              LAMBDA c : IsText(c))

\* the frames streamText has received all have a choices array
Received == SubSeq(unified, 1, taken)

ReceivedTyped == \A i \in 1..taken : IsChatResponse(unified[i], KeyDelta)

C22_TextsInvariant ==
    (Streaming /\ ReceivedTyped) =>
        /\ ret.kind = "generator"
        /\ texts = DeltaContents(Received)
        /\ cpc = "suspendedYield" =>
              (texts # <<>> /\ texts[Len(texts)] = FirstContent(unified[taken], KeyDelta))

C22_TextsStep ==
    /\ texts' # texts => (cpc = "running" /\ taken' = taken + 1)
    /\ (Streaming /\ cpc = "running" /\ cpc' = "completed")
          => taken = Len(unified)
    /\ (Streaming /\ ReceivedTyped' /\ cpc = "running" /\ cpc' = "threw")
          => (ret'.error = "KushRouterError" /\ UNCHANGED <<taken, texts>>)

\* C22: complete() and chat() with stream true return a generator whose
\* strings are exactly, in order, the non-empty delta.content values of the
\* first choice of the frames the unified stream yields; a frame whose first
\* choice has no content or empty content adds nothing, the generator ends
\* of itself only when the unified stream has ended, and on frames with a
\* choices array it throws only what the unified stream throws.
C22_StreamedTexts == []C22_TextsInvariant /\ [][C22_TextsStep]_vars

\* complete() with stream true ran to the end of a stream of three frames,
\* the middle one with empty content
C22_Witness ==
    /\ cpc = "completed"
    /\ conv = [op |-> "complete", arg |-> "true"]
    /\ unified = <<WithChoices(<<Choice(KeyDelta, Hi)>>),
                   WithChoices(<<Choice(KeyDelta, Str(<<>>))>>),
                   WithChoices(<<Choice(KeyDelta, Yo)>>)>>
    /\ taken = 3
    /\ texts = <<Hi, Yo>>

\* the output token count a request configures, in either spelling
Configured(request) == request.max_tokens \cup request.maxTokens

\* C29: estimateCost takes as output token count the max-output-tokens the
\* request configures, max_tokens: 1500 or max_tokens: 1000 in the documented
\* calls, and returns inputTokens/1e6 * inputPrice + thatCount/1e6 *
\* outputPrice for the pricing entry of the request's model.
C29_ConfiguredOutputTokens ==
    (cpc = "done" /\ conv.op = "estimateCost") =>
        \A n \in conv.arg.max_tokens :
            conv.arg.maxTokens = {} =>
                ret.value = <<"num", Get(unified[1], KeyTokens)[2]
                                         * ModelPricing(conv.arg).input
                                     + n * ModelPricing(conv.arg).output>>

\* ------------------------------------------------------------ claims: concurrency

\* the locals of task j: live when its continuation runs, in its frame otherwise
LocalsOf(j) == IF j = running THEN Frame ELSE tasks[j]

\* the attempts of a log that were followed by a sleep when the call runs alone:
\* every answer but a 2xx one, before the last attempt
Retried(f) ==
    {i \in 1..Len(f.log) : f.log[i].status # {200} /\ i < retries.whole}

\* the sleeps of a call run alone on these answers: 2^i seconds after a 429,
\* i seconds after a failed exchange
SoloSleeps(f) ==
    [i \in 1..Cardinality(Retried(f)) |->
        IF f.log[i].status = {429} THEN Pow2(i) * 1000 ELSE 1000 * i]

\* the frames each body yields when its stream runs alone and the body comes
\* as one chunk; a call has no body
AloneFrames == [body \in ConcStreams \cup {<<>>} |-> UnsplitFrames(body)]

\* the call or stream of frame f stands where it stands when it runs alone on
\* the same answers and the same body
AsAlone(f) ==
    /\ IsPrefix(f.yielded, AloneFrames[f.input])
    /\ f.exit \in {"eof", "done"} => f.yielded = AloneFrames[f.input]
    /\ f.gen = "reading" => f.lines = <<>>
    /\ f.exchanges = Len(f.log) + (IF f.pc = "fetch" THEN 1 ELSE 0)
    /\ f.attempt = (IF f.pc = "loop" THEN Len(f.log) + 1 ELSE f.exchanges)
    /\ Retried(f) = 1..Cardinality(Retried(f))
    /\ f.sleeps = SoloSleeps(f)
    /\ f.pc = "sleep" => Len(f.sleeps) = Len(f.log)
    /\ f.pc = "returned" => f.log[Len(f.log)].status = {200}
    /\ f.pc = "raised" =>
          (Len(f.log) = retries.whole /\ f.log[Len(f.log)].status # {200})

C27_AloneInvariant == \A j \in TaskIds : AsAlone(LocalsOf(j))

C27_IsolationStep ==
    /\ running' = running =>
          \A j \in TaskIds \ {running} : LocalsOf(j)' = LocalsOf(j)
    /\ running' # running =>
          \A j \in TaskIds : LocalsOf(j)' = LocalsOf(j)

\* C27: with several calls and streams on one instance and their reads, sleeps
\* and yields interleaved in any order, each stream yields the frames it
\* yields alone (always a prefix of the frames of its body, all of them when
\* it has run out), each call makes the attempts and sleeps it makes alone on
\* the same answers, a step of one task changes the locals of no other task,
\* and a task resumes with the locals it was suspended with.
C27_NoInterference == []C27_AloneInvariant /\ [][C27_IsolationStep]_vars

\* a call waits in its first backoff while a stream, two reads into its body,
\* is suspended at its first yield with the start of the next line buffered
C27_Witness ==
    /\ running = 2
    /\ tasks[1].pc = "sleep"
    /\ tasks[1].sleeps = <<2000>>
    /\ input = UnitA1 \o UnitA2
    /\ gen = "suspendedYield"
    /\ yielded = <<FrameA1>>
    /\ buffer = <<"d", "a", "t", "a", ":">>

C28_ConfigInvariant ==
    /\ baseURL = BaseURL
    /\ apiKey = config.apiKey
    /\ timeout = CtorTimeout(config)
    /\ retries = CtorRetries(config)

\* C28: no operation (blocking call, streaming call, retry, error path)
\* changes the configuration of the instance: endpoint, credential, timeout
\* and retry ceiling are at every moment the values the constructor set, and
\* no step writes any of them.
C28_ConfigurationKept ==
    []C28_ConfigInvariant
        /\ [][UNCHANGED <<config, baseURL, apiKey, timeout, retries>>]_vars

\* on an instance built with timeout 5000 and retries 2, a call has used up
\* its attempts and raised while a stream has run to the end of its body
C28_Witness ==
    /\ config.retries = {Num(2)}
    /\ retries = Num(2)
    /\ timeout = Num(5000)
    /\ running = 2
    /\ tasks[1].pc = "raised"
    /\ tasks[1].exchanges = 2
    /\ exit = "eof"

\* ------------------------------------------------------------ claims: the envelope of an attempt

\* C31: the request envelope is built once per attempt: in a call that makes n
\* attempts, attempt i sends authentication headers and a serialized body
\* computed in attempt i, under a deadline armed in attempt i.
C31_EnvelopePerAttempt ==
    \A i \in DOMAIN sent : sent[i].made = i /\ sent[i].signal = i

\* ------------------------------------------------------------ claims: the caller's request object

StreamOps == {"streamUnified", "streamOpenAI", "streamAnthropic"}

\* C39: streamUnified, streamOpenAI and streamAnthropic send stream: true in
\* the body of every attempt, whatever the caller's request has in its stream
\* field (absent, true, false, undefined), and the caller's request object is
\* afterwards what it was.
C39_StreamTrueSent ==
    (call # <<>> /\ call[1].op \in StreamOps) =>
        /\ call[1].after = call[1].arg
        /\ \A i \in DOMAIN sent :
              /\ sent[i].body.kind = "json"
              /\ sent[i].body.json.t = "object"
              /\ sent[i].body.json.f["stream"] = "true"

\* streamOpenAI with stream: false in the request, first attempt and a retry
C39_Witness ==
    /\ call # <<>>
    /\ call[1].op = "streamOpenAI"
    /\ call[1].arg.t = "object"
    /\ call[1].arg.f["stream"] = "false"
    /\ call[1].after.f["stream"] = "false"
    /\ Len(sent) = 2
    /\ sent[2].body.json.f["stream"] = "true"

\* the pairs of the normalizer an operation applies to the caller's request
PairsOf(op) == IF op = "chatUnified" THEN UnifiedPairs ELSE OpenAIPairs

NormalizerOf(op, req) ==
    IF op = "chatUnified" THEN normalizeUnifiedRequest(req)
    ELSE normalizeOpenAIRequest(req)

PairKeys(pairs) == {p[1] : p \in Range(pairs)} \cup {p[2] : p \in Range(pairs)}

InCall == pc \in {"loop", "fetch", "sleep"}

\* C32: every makeRequest call ends, by returning a response or by raising,
\* whatever the outcomes of its attempts, when every exchange responds, fails
\* or is aborted and every sleep elapses; and what has ended stays ended.
C32_CallTerminates ==
    /\ InCall ~> Terminated
    /\ [][Terminated => (pc' = pc /\ result' = result /\ exchanges' = exchanges)]_vars

\* a call with the largest ceiling that used every attempt, the first one
\* answered by 429, and ended by raising
C32_Witness ==
    /\ pc = "raised"
    /\ retries = Num(MaxRetries)
    /\ exchanges = MaxRetries
    /\ Len(sleeps) = MaxRetries - 1
    /\ log[1].status = {429}

\* C33: when makeRequest has returned or raised, no timer armed by any of its
\* attempts is pending, whether the exchange returned 2xx, a non-2xx status,
\* or failed in transport before the deadline.
C33_NoTimerPending ==
    Terminated => timers = {}

\* C34: the deadline of an attempt guards its exchange only until the response
\* arrives: the timer of an attempt that got a response is disarmed from then
\* on, so that while the body of a returned response is read no timer of its
\* attempt is pending, and a timer that fires outside the exchange it was
\* armed for changes nothing but the set of timers.
C34_DisarmedInvariant ==
    /\ \A k \in DOMAIN log : log[k].status # {} => k \notin timers
    /\ pc = "returned" => attempt \notin timers

C34_DisarmedStep ==
    /\ pc = "returned" => (pc' = "returned" /\ result' = result)
    /\ (\E k \in timers : k \notin timers' /\ ~(pc = "fetch" /\ k = attempt)) =>
          UNCHANGED <<pc, attempt, lastError, response, result, exchanges, sleeps,
                      log, varsS>>

C34_DeadlineEndsAtResponse == []C34_DisarmedInvariant /\ [][C34_DisarmedStep]_vars

\* the second attempt returned a response; the timer of the first, whose
\* exchange failed, is pending and the timer of the second is not
C34_Witness ==
    /\ pc = "returned"
    /\ attempt = 2
    /\ log[1].status = {}
    /\ timers = {1}

\* C38: for every retries value the constructor accepts (0, negative and
\* non-integer ones too), a makeRequest call issues at least one exchange and
\* ends by returning a response or raising an error that came from an
\* attempt, never undefined, and never with a sleep after its last exchange.
C38_AnyCeiling ==
    Terminated =>
        /\ exchanges >= 1
        /\ pc = "raised" => result.error # {}
        /\ Len(sleeps) < exchanges

\* ------------------------------------------------------------ claims: failed reads and the last line

\* C35: retry covers the obtaining of the response only: after the 2xx response
\* of a stream operation no further exchange is issued, a read that fails is
\* not repeated, the error reaches the consumer on that pull, the reader is
\* released, and the frames yielded are still a prefix of the frames of the
\* body, none yielded again and none taken back.
C35_ReadErrorInvariant ==
    /\ exchanges = 1
    /\ pc = "returned"
    /\ exit = "error" =>
          /\ gen = "threw"
          /\ reader = "released"
          /\ IsPrefix(yielded, UnsplitFrames(input))

C35_ReadErrorStep ==
    /\ (gen = "reading" /\ exit' = "error") =>
          /\ gen' = "threw"
          /\ reader' = "released"
          /\ UNCHANGED <<yielded, source, buffer, lines>>
    /\ exit = "error" => UNCHANGED <<varsS, varsR>>
    /\ IsPrefix(yielded, yielded')

C35_ReadFailureFinal == []C35_ReadErrorInvariant /\ [][C35_ReadErrorStep]_vars

\* the second read of a two-frame body failed after the first frame was out
C35_Witness ==
    /\ input = UnitA1 \o UnitA2
    /\ exit = "error"
    /\ gen = "threw"
    /\ yielded = <<FrameA1>>
    /\ source # <<>>
    /\ reader = "released"

\* the text after the last newline of a body
LastLine(bytes) == Last(Split(Decode(<<>>, bytes).text))

\* C36: at the end of the byte source the text left in the buffer, a last line
\* without its newline, is dropped: it is still in the buffer, it was never
\* visited as a line, it is no frame even when it is 'data: ' and valid JSON,
\* and the generator completes without an error; the frames are those of the
\* newline-terminated lines.
C36_TailInvariant ==
    /\ exit = "eof" =>
          /\ gen = "completed"
          /\ buffer = LastLine(input)
          /\ yielded = FramesOfLines(CompleteLines(input))
    /\ source = <<>> /\ pend = <<>> => buffer = LastLine(input)

C36_TailStep ==
    (gen = "reading" /\ source = <<>> /\ exit' = "eof") =>
        /\ gen' = "completed"
        /\ UNCHANGED <<yielded, buffer, lines>>

C36_TailDiscarded == []C36_TailInvariant /\ [][C36_TailStep]_vars

\* a frame, then data: 7 without a newline, read to the end
C36_Witness ==
    /\ input = UnitA1 \o UnitOpen
    /\ exit = "eof"
    /\ gen = "completed"
    /\ buffer = UnitOpen
    /\ yielded = <<FrameA1>>

\* C37: the text stream behind complete() and chat() with stream true raises
\* no error of its own for any frame of the unified stream: a frame of any
\* JSON shape (no choices, empty choices, a first choice without delta, null,
\* a scalar) is passed over and the next frame is taken; the only errors it
\* throws are the unified stream's.
C37_AnyFrameSkipped ==
    Streaming =>
        /\ ret.error \in {"", "KushRouterError"}
        /\ cpc = "threw" => ret.error = "KushRouterError"
====
